---- MODULE Spec2Model ----
(***************************************************************************)
(* A model of the Google Shopping scraper                                  *)
(* (src/src/google_shopping_scraper/scraper.py): the retry loop of         *)
(* get_shopping_data_for_query, the browser session kept in _driver, the   *)
(* scroll pass and the fallback pass of _get_items_for_query, and the      *)
(* field extraction of _get_data_from_item_div.                            *)
(*                                                                         *)
(* Texts are sequences of one-character strings, so that strip(), lower(), *)
(* the substring test and the price pattern are computed as the code       *)
(* computes them.  The currency signs of the pattern are written "$",      *)
(* "INR", "EUR", "GBP" and "JPY".                                          *)
(***************************************************************************)
EXTENDS Integers, Sequences, FiniteSets, TLC

\* ------------------------------------------------------------------ bounds

\* Longest title / price text drawn for the field extractor.
MaxStrLen == 2

\* ------------------------------------------------------------------- texts

None == <<"None">>

\* find_element raised NoSuchElementException / the element went stale.
Absent == <<"NoSuchElement">>
Stale == <<"StaleElement">>

Whitespace == {" ", "\n"}
Digits == {"1", "2"}
CurrencySymbols == {"INR", "$", "EUR", "GBP", "JPY"}

IsText(x) == x \notin {None, Absent, Stale}

RECURSIVE LStrip(_)
LStrip(s) ==
    IF s # <<>> /\ Head(s) \in Whitespace THEN LStrip(Tail(s)) ELSE s

RECURSIVE RStrip(_)
RStrip(s) ==
    IF s # <<>> /\ s[Len(s)] \in Whitespace
    THEN RStrip(SubSeq(s, 1, Len(s) - 1)) ELSE s

\* str.strip()
Strip(s) == RStrip(LStrip(s))

LowerChar(c) == IF c = "P" THEN "p" ELSE IF c = "LOGO" THEN "logo" ELSE c

\* str.lower()
Lower(s) == [i \in 1..Len(s) |-> LowerChar(s[i])]

\* w in s
Contains(s, w) ==
    \E i \in 1..(Len(s) - Len(w) + 1) : SubSeq(s, i, i + Len(w) - 1) = w

\* s.startswith(w)
StartsWith(s, w) == Len(s) >= Len(w) /\ SubSeq(s, 1, Len(w)) = w

\* The first index j >= i with s[j] not in C (Len(s) + 1 when there is none).
RECURSIVE SpanWhile(_, _, _)
SpanWhile(s, i, C) ==
    IF i <= Len(s) /\ s[i] \in C THEN SpanWhile(s, i + 1, C) ELSE i

NoMatch == <<"NoMatch">>

\* The match of [INR $ EUR GBP JPY]\s*[\d,]+\.?\d* that starts at index i.
MatchAt(s, i) ==
    IF s[i] \notin CurrencySymbols THEN NoMatch
    ELSE LET a == SpanWhile(s, i + 1, Whitespace)
             b == SpanWhile(s, a, Digits \cup {","})
             c == IF b <= Len(s) /\ s[b] = "." THEN b + 1 ELSE b
             d == SpanWhile(s, c, Digits)
         IN  IF b > a THEN SubSeq(s, i, d - 1) ELSE NoMatch

\* re.search(pattern, s): the leftmost match, its .group()
ReSearch(s) ==
    LET hits == {i \in 1..Len(s) : MatchAt(s, i) # NoMatch}
    IN  IF hits = {} THEN NoMatch
        ELSE MatchAt(s, CHOOSE i \in hits : \A j \in hits : i <= j)

PriceWord == <<"p", "r", "i", "c", "e">>

\* --------------------------------------------------------- field extractor
(***************************************************************************)
(* A container (div) as _get_data_from_item_div reads it:                  *)
(*   title, price      text of the first .gkQHve.SsM98d.RmEs5b / .lmQWe    *)
(*                     element, Absent when find_element raises            *)
(*                     NoSuchElementException, Stale when the read raises  *)
(*   aria              aria-label of the price element (None: no such      *)
(*                     attribute, Stale: get_attribute raises)             *)
(*   delivery, review  text of .ybnj7e / .yi40Hd, Absent or Stale          *)
(*   href              href of the first a[href], Absent or Stale          *)
(*   imgs_in, imgs_sib, imgs_parent                                        *)
(*                     the img elements of the three lookups, each img a   *)
(*                     record [src, data_src] (LookupRaises: the lookup    *)
(*                     raises)                                             *)
(*   hveid             the data-hveid attribute (None: not set)            *)
(*   text              what hash(container.text[:100]) is computed from    *)
(*   eid               the identity of the element                         *)
(* A URL is a sequence of tokens ("http", "encrypted-tbn", ...).           *)
(***************************************************************************)

NA == <<"N", "/", "A">>

DataImagePrefix == <<"data:image/">>
EncryptedTbn == <<"encrypted-tbn">>
ShoppingTbnQuery == <<"shopping?q=tbn:">>
HttpPrefix == <<"http">>
ExcludedKeywords == {<<"favicon">>, <<"icon">>, <<"logo">>}

Truthy(x) == x # None /\ x # <<>>

Raise == <<"raise">>
Skip == <<"skip">>

\* The four priority tests of one img: Raise, Skip or the URL chosen.
ImgPriority1(img) ==
    IF img.src = Stale THEN Raise
    ELSE IF Truthy(img.src) /\ StartsWith(img.src, DataImagePrefix)
         THEN img.src ELSE Skip

ImgPriority2(img) ==
    IF img.src = Stale THEN Raise
    ELSE IF Truthy(img.src) /\ Contains(img.src, EncryptedTbn)
            /\ Contains(img.src, ShoppingTbnQuery)
         THEN img.src ELSE Skip

ImgPriority3(img) ==
    IF img.src = Stale THEN Raise
    ELSE IF Truthy(img.src) /\ Contains(img.src, EncryptedTbn) THEN img.src
    ELSE IF img.data_src = Stale THEN Raise
    ELSE IF Truthy(img.data_src) /\ Contains(img.data_src, EncryptedTbn)
         THEN img.data_src ELSE Skip

ImgPriority4(img) ==
    IF img.src = Stale THEN Raise
    ELSE IF Truthy(img.src) /\ StartsWith(img.src, HttpPrefix)
            /\ ~ \E x \in ExcludedKeywords : Contains(Lower(img.src), x)
         THEN img.src ELSE Skip

ImgPriority(k, img) ==
    CASE k = 1 -> ImgPriority1(img)
      [] k = 2 -> ImgPriority2(img)
      [] k = 3 -> ImgPriority3(img)
      [] OTHER -> ImgPriority4(img)

\* for img in all_imgs: ... break
RECURSIVE ScanImgs(_, _)
ScanImgs(k, imgs) ==
    IF imgs = <<>> THEN Skip
    ELSE LET o == ImgPriority(k, Head(imgs))
         IN  IF o = Skip THEN ScanImgs(k, Tail(imgs)) ELSE o

\* ImageChain as one pass over all_imgs: the first img that passes any of
\* the tests k..4 is taken.
RECURSIVE FirstOfAnyPriority(_, _)
FirstOfAnyPriority(k, imgs) ==
    IF imgs = <<>> THEN None
    ELSE LET hits == {j \in k..4 : ImgPriority(j, Head(imgs)) \notin {Skip, Raise}}
         IN  IF hits = {} THEN FirstOfAnyPriority(k, Tail(imgs))
             ELSE ImgPriority(CHOOSE j \in hits : \A h \in hits : j <= h,
                              Head(imgs))

\* Lines 346-382: the four loops over all_imgs, each run only while
\* image_url is not set; a read that raises leaves image_url None (384-386).
RECURSIVE ImageChain(_, _)
ImageChain(k, imgs) ==
    IF k > 4 THEN None
    ELSE LET o == ScanImgs(k, imgs)
         IN  IF o = Raise THEN None
             ELSE IF o = Skip THEN ImageChain(k + 1, imgs)
             ELSE o

\* find_elements raised: the lookup adds nothing to all_imgs.
LookupRaises == <<[raises |-> TRUE]>>

Found(x) == IF x = LookupRaises THEN <<>> ELSE x

\* Lines 316-386.
ExtractImageUrl(div) ==
    ImageChain(1, Found(div.imgs_in) \o Found(div.imgs_sib)
                  \o Found(div.imgs_parent))

\* str.isdigit()
IsDigit(s) == s # <<>> /\ \A i \in 1..Len(s) : s[i] \in Digits

\* s.replace('.', '')
RECURSIVE RemoveDots(_)
RemoveDots(s) ==
    IF s = <<>> THEN <<>>
    ELSE IF Head(s) = "." THEN RemoveDots(Tail(s))
    ELSE <<Head(s)>> \o RemoveDots(Tail(s))

\* ExtractDelivery without the default of line 389.
ExtractDeliveryNoDefault(div) ==
    IF IsText(div.delivery) THEN Strip(div.delivery) ELSE None

\* Lines 388-394.
ExtractDelivery(div) ==
    IF IsText(div.delivery) THEN Strip(div.delivery) ELSE NA

\* Lines 396-404.
ExtractReview(div) ==
    IF ~ IsText(div.review) THEN None
    ELSE LET review_text == Strip(div.review)
         IN  IF review_text # <<>> /\ IsDigit(RemoveDots(review_text))
             THEN review_text ELSE None

\* Lines 406-412.
ExtractUrl(div) == IF IsText(div.href) THEN div.href ELSE NA

\* ExtractTitle without lines 291-292: an empty title is let through.
ExtractTitleUnchecked(div) ==
    IF ~ IsText(div.title) THEN None ELSE Strip(div.title)

\* Lines 283-292: the stripped title, or None when the container is rejected.
ExtractTitle(div) ==
    IF ~ IsText(div.title) THEN None
    ELSE LET title == Strip(div.title)
         IN  IF title = <<>> THEN None ELSE title

\* ExtractPrice without the test for "price" of line 305.
ExtractPriceAnyLabel(div) ==
    IF ~ IsText(div.price) THEN None
    ELSE IF Strip(div.price) # <<>> THEN Strip(div.price)
    ELSE IF div.aria = Stale THEN None
    ELSE IF Truthy(div.aria) /\ ReSearch(div.aria) # NoMatch
         THEN ReSearch(div.aria)
    ELSE None

\* Lines 294-314: the price, or None when the container is rejected.
ExtractPrice(div) ==
    IF ~ IsText(div.price) THEN None
    ELSE LET price_text == Strip(div.price)
             price_match == ReSearch(div.aria)
         IN  IF price_text # <<>> THEN price_text
             ELSE IF div.aria = Stale THEN None
             ELSE IF Truthy(div.aria) /\ Contains(Lower(div.aria), PriceWord)
                     /\ price_match # NoMatch
                  THEN price_match
             ELSE None

ShoppingItem(price, delivery_price, title, review, url, image_url) ==
    [title |-> title, price |-> price, delivery_price |-> delivery_price,
     review |-> review, url |-> url, image_url |-> image_url,
     saved_image_path |-> None]

\* return None
NoneItem == [none |-> TRUE]

\* An exception leaves _get_data_from_item_div.
ExtractorRaised == [raised |-> TRUE]

\* GetDataFromItemDiv without the except clauses of lines 288, 310 and 424:
\* a stale title or price element raises to the caller.
GetDataUncaught(div) ==
    IF div.title = Stale \/ (IsText(div.title) /\ div.price = Stale)
    THEN ExtractorRaised
    ELSE IF ExtractTitle(div) = None \/ ExtractPrice(div) = None THEN NoneItem
    ELSE ShoppingItem(ExtractPrice(div), ExtractDelivery(div),
                      ExtractTitle(div), ExtractReview(div), ExtractUrl(div),
                      ExtractImageUrl(div))

\* _get_data_from_item_div: a ShoppingItem, or None.
GetDataFromItemDiv(div) ==
    LET title == ExtractTitle(div)
        price == ExtractPrice(div)
    IN  IF title = None THEN NoneItem
        ELSE IF price = None THEN NoneItem
        ELSE ShoppingItem(price, ExtractDelivery(div), title,
                          ExtractReview(div), ExtractUrl(div),
                          ExtractImageUrl(div))

\* ---------------------------------------------------------------- the page
(***************************************************************************)
(* A page is the list of its title elements (.gkQHve.SsM98d.RmEs5b) in     *)
(* document order.  A title element is [level, div]: level is the distance *)
(* of its nearest ancestor that holds a .lmQWe element (0 when it has      *)
(* none, or when stepping to the parent raises) and div is that ancestor.  *)
(* Two title elements below the same ancestor carry the same div.eid.      *)
(***************************************************************************)

\* range(5): the levels climbed from a title element.
MaxLevels == 5

\* len(item_data) < 5: the number of products wanted.
TargetCount == 5

\* max_scrolls = 10
MaxScrolls == 10

\* min(15, len(items)): the containers the fallback pass processes.
MaxFallbackItems == 15

\* random.randint(scroll_increment - 50, scroll_increment + 50)
ScrollJitter == 50

\* --window-size=1920,1080
WindowHeight == 1080

NoContainer == [none |-> TRUE]

\* parent.find_element(By.CSS_SELECTOR, ".lmQWe") on the ancestor d levels
\* above a title element: the nearest priced ancestor holds the price
\* element, and so does every element that encloses it.
HasPriceMarker(title_elem, d) ==
    title_elem.level >= 1 /\ d >= title_elem.level

\* The loop of lines 702-711 and 573-583 from the ancestor d levels up,
\* over the ancestors up to limit levels up: the first one that holds a
\* price element is title_elem.div.
RECURSIVE ClimbFrom(_, _, _)
ClimbFrom(title_elem, d, limit) ==
    IF d > limit THEN NoContainer
    ELSE IF HasPriceMarker(title_elem, d) THEN title_elem.div
    ELSE ClimbFrom(title_elem, d + 1, limit)

\* FindContainer with range(6) for range(5).
FindContainerSixLevels(title_elem) == ClimbFrom(title_elem, 1, MaxLevels + 1)

\* Lines 699-711 and 571-583: climb to the nearest ancestor with a price.
FindContainer(title_elem) == ClimbFrom(title_elem, 1, MaxLevels)

\* str(hash(container.text[:100])): text is <<first 100 characters, rest>>.
HashOfPrefix(text) == <<"hash", text[1]>>

\* Line 715: container.get_attribute("data-hveid") or str(hash(...))
ContainerId(container) ==
    IF Truthy(container.hveid) THEN container.hveid
    ELSE HashOfPrefix(container.text)

\* ProcessedIds with the test of line 716 never true.
NoProcessedIds(item_data) == {}

\* Line 716: the _container_id of the items collected so far.
ProcessedIds(item_data) == {item_data[i].container_id : i \in 1..Len(item_data)}

\* EnoughItems with the breaks of lines 694, 733 and 616 never taken.
NeverEnoughItems(item_data) == FALSE

\* Lines 694, 733 and 616: if len(item_data) >= 5: break
EnoughItems(item_data) == Len(item_data) >= TargetCount

\* Collected with insert(0, item) for append(item).
CollectedInFront(acc, item, eid) ==
    [items |-> <<item>> \o acc.items, eids |-> <<eid>> \o acc.eids]

\* Lines 722 and 609: item_data.append(item).  acc is [items, eids]:
\* item_data and the elements its items came from.
Collected(acc, item, eid) ==
    [items |-> Append(acc.items, item), eids |-> Append(acc.eids, eid)]

\* ProcessTitles without the break of lines 694-695.
RECURSIVE ProcessAllTitles(_, _)
ProcessAllTitles(title_elements, acc) ==
    IF title_elements = <<>> THEN acc
    ELSE LET container == FindContainer(Head(title_elements))
             rest == Tail(title_elements)
             item == GetDataFromItemDiv(container)
         IN  IF container = NoContainer \/ container.hveid = Stale
                \/ ContainerId(container) \in ProcessedIds(acc.items)
                \/ item = NoneItem
             THEN ProcessAllTitles(rest, acc)
             ELSE ProcessAllTitles(rest,
                    Collected(acc,
                              item @@ [container_id |->
                                         ContainerId(container)],
                              container.eid))

\* Lines 693-728: the loop over the title elements of one scroll position.
\* Line 721 tags the item with its key (an underscore attribute, which a
\* pydantic 2 model accepts).
RECURSIVE ProcessTitles(_, _)
ProcessTitles(title_elements, acc) ==
    IF title_elements = <<>> THEN acc
    ELSE IF EnoughItems(acc.items) THEN acc
    ELSE LET container == FindContainer(Head(title_elements))
             rest == Tail(title_elements)
             item == GetDataFromItemDiv(container)
         IN  IF container = NoContainer THEN ProcessTitles(rest, acc)
             ELSE IF container.hveid = Stale THEN ProcessTitles(rest, acc)
             ELSE IF ContainerId(container) \in ProcessedIds(acc.items)
                  THEN ProcessTitles(rest, acc)
             ELSE IF item = NoneItem THEN ProcessTitles(rest, acc)
             ELSE ProcessTitles(rest,
                    Collected(acc,
                              item @@ [container_id |->
                                         ContainerId(container)],
                              container.eid))

\* Lines 568-585: the containers of the fallback pass, each element once.
RECURSIVE FallbackContainers(_, _)
FallbackContainers(title_elements, found) ==
    IF title_elements = <<>> THEN found
    ELSE LET container == FindContainer(Head(title_elements))
         IN  IF container = NoContainer
                \/ \E i \in 1..Len(found) : found[i].eid = container.eid
             THEN FallbackContainers(Tail(title_elements), found)
             ELSE FallbackContainers(Tail(title_elements),
                                     Append(found, container))

\* CapItems without the cut of lines 596-597.
UncappedItems(found) == found

\* Lines 596-597: items[:min(15, len(items))]
CapItems(found) ==
    SubSeq(found, 1, IF Len(found) < MaxFallbackItems
                     THEN Len(found) ELSE MaxFallbackItems)

\* Lines 600-628: extract the containers in order, stop at five items.
RECURSIVE FallbackExtract(_, _)
FallbackExtract(containers, acc) ==
    IF containers = <<>> THEN acc
    ELSE LET item == GetDataFromItemDiv(Head(containers))
             next == IF item = NoneItem THEN acc
                     ELSE Collected(acc, item, Head(containers).eid)
         IN  IF EnoughItems(next.items) THEN next
             ELSE FallbackExtract(Tail(containers), next)

\* ------------------------------------------------------------- input pages

\* Longest free tail of a page, after its run of equal containers.
MaxTail == 2

\* max_retries is drawn from -1..MaxRetriesBound.
MaxRetriesBound == 3

\* Calls of get_shopping_data_for_query on the one scraper instance.
MaxRuns == 2

ValidTitle == <<" ", "a">>
BlankTitle == <<" ">>
PriceText == <<"$", "1">>
AriaPrice == <<"P", "r", "i", "c", "e", ":", " ", "INR", "2", "1", ".", "1">>

Div(eid, hveid, first100, title, price, aria) ==
    [eid |-> eid, hveid |-> hveid, text |-> <<first100, ToString(eid)>>,
     title |-> title, price |-> price, aria |-> aria,
     delivery |-> Absent, review |-> Absent, href |-> Absent,
     imgs_in |-> <<>>, imgs_sib |-> <<>>, imgs_parent |-> <<>>]

Kinds == {"V", "X", "D", "T", "G", "N"}

\* The i-th title element of a page, of kind k:
\*   V a product with its own data-hveid      X a container with a blank title,
\*                                               or a title or price gone stale
\*   D a product whose data-hveid is "dup"    T a product without data-hveid
\*   G a title below the shared element 0     N no priced ancestor in reach
\* Every third product is priced by its aria-label, not by its text.
TitleElem(k, i) ==
    LET lvl == ((i - 1) % MaxLevels) + 1
        own == <<ToString(i)>>
    IN  CASE k = "V" -> [level |-> lvl,
                         div |-> IF i % 3 = 0
                                 THEN Div(i, own, "v", ValidTitle, <<" ">>,
                                          AriaPrice)
                                 ELSE Div(i, own, "v", ValidTitle, PriceText,
                                          None)]
          [] k = "X" -> [level |-> lvl,
                         div |-> CASE i % 3 = 0 ->
                                        Div(i, own, "x", Stale, PriceText, None)
                                   [] i % 3 = 1 ->
                                        Div(i, own, "x", BlankTitle, PriceText,
                                            None)
                                   [] OTHER ->
                                        Div(i, own, "x", ValidTitle, Stale, None)]
          [] k = "D" -> [level |-> lvl,
                         div |-> Div(i, <<"dup">>, "d", ValidTitle, PriceText, None)]
          [] k = "T" -> [level |-> lvl,
                         div |-> Div(i, None, "t", ValidTitle, PriceText, None)]
          [] k = "G" -> [level |-> lvl,
                         div |-> Div(0, <<"grid">>, "g", ValidTitle, PriceText, None)]
          [] OTHER   -> [level |-> IF i % 2 = 0 THEN 0 ELSE MaxLevels + 1,
                         div |-> Div(i, own, "n", ValidTitle, PriceText, None)]

Tails(n) == UNION {[1..k -> Kinds] : k \in 0..n}

\* The kinds of a page: n containers of kind pad, then those of tail.
PageOf(pad, n, tail) ==
    [i \in 1..(n + Len(tail)) |-> IF i <= n THEN pad ELSE tail[i - n]]

\* The title elements of the page whose kinds are ks, the first n of them.
Elements(ks, n) == [i \in 1..n |-> TitleElem(ks[i], i)]

\* The pages the collector is run on: a free tail alone, a tail after
\* eight products (more than are wanted), and a shorter tail after fifteen
\* rejected containers (as many as the fallback pass looks at).
CollectPages ==
    {PageOf("V", n, tail) : n \in {0, 8}, tail \in Tails(MaxTail)}
    \cup {PageOf("X", MaxFallbackItems, tail) : tail \in Tails(MaxTail - 1)}

\* The pages a run of get_shopping_data_for_query may load.
RunPages ==
    {PageOf("V", 0, <<>>), PageOf("X", 1, <<"V">>), PageOf("V", 6, <<>>)}

\* The height of one product card, in pixels.
CardHeight == 300

\* The height of what stands above the product cards, in pixels.
HeaderHeight == 200

\* document.body.scrollHeight with n title elements attached.
PageHeight(n) == HeaderHeight + CardHeight * n

\* Lazy loading between two looks at the page: nothing new is attached,
\* or the rest of the page is.
Grown(ks, n) == {n, Len(ks)}

\* The title elements attached when the page is first looked at.
AttachedAtLoad(ks) == {0, Len(ks)} \cup {m \in {1} : m <= Len(ks)}

Proxies == {None, <<"proxy1">>}

NoDriver == 0

\* self._driver_config = {}
EmptyConfig == [none |-> TRUE]

\* ------------------------------------------------------------------- state

VARIABLES
    keep_browser_open,  \* self.keep_browser_open
    driver,             \* self._driver: a session, or NoDriver
    driver_config,      \* self._driver_config
    sessions,           \* the browser sessions created and not quit
    pc,                 \* where get_shopping_data_for_query stands
    max_retries,        \* its arguments
    proxy,
    headless,
    attempt,            \* the loop variable
    cur,                \* its local variable driver
    items,              \* its local variable items
    outcome,            \* how the last call ended
    runs,               \* calls made so far
    acquire_calls,      \* calls of _get_or_create_driver in this run
    acquired_any,       \* whether one of them returned a session
    page,               \* the loaded page: the kinds of its title elements
    attached,           \* how many of them are attached to the DOM by now
    item_data,          \* _smart_scroll_and_extract: item_data
    item_eids,          \* the elements the items of item_data came from
    scroll_count,
    current_position,
    scroll_increment,
    pass,               \* the pass that produced items: scroll or fallback
    quit_call,          \* the quit() call of the step just taken: none, ok
                        \* or raised
    scroll_call,        \* whether the step just taken called window.scrollTo
    clear_call,         \* the _clear_browser_state call of the step just
                        \* taken: none, skipped, ok or raised
    scroll_error,       \* whether the step just taken left the scroll pass
                        \* by its 'except Exception' (line 760), and the
                        \* elements of the items it had collected by then
    logger,             \* self._logger: its own level and the level of
                        \* the ancestor it inherits from
    debug_call,         \* the _save_html_for_debug call of the step just
                        \* taken: none, saved or failed
    ex_div,             \* the container handed to _get_data_from_item_div
    ex_item,            \* what it returned
    ex_pc,
    rd_pc,              \* where _wait_for_javascript_rendering stands
    rd_page,            \* per selector, the poll at which it is first present
    rd_sel,             \* the selector wait.until is polling for
    rd_waited,          \* polls of this wait.until that found nothing
    rd_polled,          \* polls of all of them that found nothing
    rd_samples,         \* the counts _quick_stability_check has taken
    rd_result,          \* how the wait ended
    dl_now,             \* time.time(), in tenths of a second
    dl_fast,            \* per scraper instance, self.fast_mode
    dl_last,            \* per scraper instance, self._last_request_time
    dl_call,            \* the last call of _add_random_delay
    dl_done,            \* when the call before it returned
    dl_calls,           \* calls made so far
    api_pc,             \* where the /scrape handler stands
    api_global,         \* _global_scraper
    api_req,            \* the parameters of the request
    api_scraper,        \* the handler's local variable scraper
    api_response,       \* how the last request ended
    api_requests,       \* requests made so far
    api_waiting,        \* requests received whose handler has not started
    api_active,         \* handlers inside a call on the global scraper
    api_made            \* global scrapers created so far

orch_vars == <<keep_browser_open, driver, driver_config, sessions,
               max_retries, proxy, headless, attempt, cur, outcome, runs,
               acquire_calls, acquired_any>>
coll_vars == <<page, attached, item_data, item_eids, scroll_count,
               current_position, scroll_increment, items, pass>>
ex_vars == <<ex_div, ex_item, ex_pc>>
\* The state of the parts that are also run on their own.
rd_vars == <<rd_pc, rd_page, rd_sel, rd_waited, rd_polled, rd_samples,
             rd_result>>
dl_vars == <<dl_now, dl_fast, dl_last, dl_call, dl_done, dl_calls>>
api_vars == <<api_pc, api_global, api_req, api_scraper, api_response,
              api_requests, api_waiting, api_active, api_made>>
unit_vars == <<ex_vars, rd_vars, dl_vars, api_vars>>
vars == <<orch_vars, coll_vars, unit_vars, pc, quit_call, scroll_call,
          clear_call, scroll_error, logger, debug_call>>

\* The step does not call window.scrollTo.
NoScroll == scroll_call' = FALSE

\* The levels of the logging module.
LevelValue == [NOTSET |-> 0, DEBUG |-> 10, INFO |-> 20, WARNING |-> 30]

\* A logger: the level set on it (NOTSET when none was) and the level of
\* the nearest ancestor that has one.
Logger(level, parent) == [level |-> level, parent |-> parent]

\* api.py 47-64: basicConfig(level=logging.INFO) sets the root logger, and
\* logging.getLogger(__name__) has no level of its own.
ApiLogger == Logger(LevelValue.NOTSET, LevelValue.INFO)

\* The loggers a scraper is made with.
Loggers ==
    {Logger(l, p) : l \in {LevelValue.NOTSET, LevelValue.DEBUG,
                           LevelValue.INFO, LevelValue.WARNING},
                    p \in {LevelValue.DEBUG, LevelValue.INFO,
                           LevelValue.WARNING}}

\* Logger.getEffectiveLevel(): the level at which the logger logs.
EffectiveLevel(lg) ==
    IF lg.level # LevelValue.NOTSET THEN lg.level ELSE lg.parent

\* The step does not reach line 547; self._logger is never assigned again.
NoSaveHtml ==
    /\ debug_call' = "none"
    /\ logger' = logger

\* Lines 546-548 and 512-534: with self._logger.level <= logging.DEBUG the
\* page is waited for once more and its markup is written to the debug
\* file, an error of which is logged.
SaveHtmlForDebug ==
    /\ debug_call' \in IF logger.level <= LevelValue.DEBUG
                        THEN {"saved", "failed"} ELSE {"none"}
    /\ logger' = logger

NoError == [raised |-> FALSE, lost |-> <<>>]

\* The step does not reach line 760.
NoScrollError == scroll_error' = NoError

\* The step does not call _clear_browser_state.
NoClear == clear_call' = "none"

\* ClearBrowserState without the test of line 209.
ClearAlways == clear_call' \in {"ok", "raised"}

\* Lines 206-216 as called at line 833: with keep_browser_open the cookies
\* and the two storages are cleared, an error of which is logged; nothing
\* is done otherwise.
ClearBrowserState ==
    clear_call' \in IF keep_browser_open THEN {"ok", "raised"}
                    ELSE {"skipped"}

\* The step calls quit() on no session.
NoQuit == quit_call' = "none"

\* The step calls quit() when called is TRUE: the call returns or raises,
\* and the browser is gone either way.
Quit(called) == quit_call' \in IF called THEN {"ok", "raised"} ELSE {"none"}

NoOutcome == [kind |-> "none", error |-> "", items |-> <<>>]
Returned(its) == [kind |-> "returned", error |-> "", items |-> its]
Raised(err) == [kind |-> "raised", error |-> err, items |-> <<>>]

\* --------------------------------------------- _get_items_for_query (536)

EmptyAcc == [items |-> <<>>, eids |-> <<>>]

\* driver.find_elements(...): the title elements attached by now.
TitleElements == Elements(page, attached)

\* Lines 689-731 of one loop iteration: found is FALSE when find_elements
\* raises, which is caught and leaves item_data as it was.
Enumerated(found) ==
    IF found THEN ProcessTitles(TitleElements,
                                [items |-> item_data, eids |-> item_eids])
    ELSE [items |-> item_data, eids |-> item_eids]

\* Line 687.
LoopGuard == Len(item_data) < TargetCount /\ scroll_count < MaxScrolls

\* ScrollOn without the limit of line 687 on the number of scrolls.
ScrollOnNoLimit(position, page_height, count) == position < page_height

\* Lines 749-751 and 687 after a scroll: the loop goes on while the position
\* is above the bottom of the page and a scroll is left.
ScrollOn(position, page_height, count) ==
    position < page_height /\ count < MaxScrolls

\* Lines 538-551 and 677-685: the waits, then the entry of the scroll pass.
\* window.innerHeight is read, or the script raises and the pass returns [].
SmartScrollStart ==
    /\ pc = "collect"
    /\ item_data' = <<>>
    /\ item_eids' = <<>>
    /\ current_position' = 0
    /\ scroll_count' = 0
    /\ \/ /\ scroll_increment' = WindowHeight \div 3
          /\ pc' = "scroll_loop"
       \/ /\ scroll_increment' = 0
          /\ pc' = "after_scroll"
    /\ NoQuit
    /\ NoScroll
    /\ NoClear
    /\ NoScrollError
    /\ SaveHtmlForDebug
    /\ UNCHANGED <<orch_vars, unit_vars, page, attached, items, pass>>

\* return: the locals of _smart_scroll_and_extract are gone.
DropLocals ==
    /\ scroll_count' = 0
    /\ current_position' = 0
    /\ scroll_increment' = 0

\* Lines 733-736: five products after this position's extraction, break.
ScrollIterEnough ==
    /\ pc = "scroll_loop"
    /\ LoopGuard
    /\ \E found \in BOOLEAN :
         LET acc == Enumerated(found)
         IN  /\ EnoughItems(acc.items)
             /\ item_data' = acc.items
             /\ item_eids' = acc.eids
    /\ pc' = "after_scroll"
    /\ DropLocals
    /\ NoQuit
    /\ NoScroll
    /\ NoClear
    /\ NoScrollError
    /\ NoSaveHtml
    /\ UNCHANGED <<orch_vars, unit_vars, page, attached, items, pass>>

\* Lines 738-751: fewer than five, scroll on, re-measure the page, and
\* stop when the position has reached its height (line 749) or when this
\* was the last scroll allowed (line 687).  More of the page may have been
\* attached meanwhile.
ScrollIterScroll ==
    /\ pc = "scroll_loop"
    /\ LoopGuard
    /\ \E found \in BOOLEAN :
         LET acc == Enumerated(found)
         IN  /\ ~ EnoughItems(acc.items)
             /\ item_data' = acc.items
             /\ item_eids' = acc.eids
             /\ \E jitter \in {-ScrollJitter, ScrollJitter},
                   grown \in Grown(page, attached) :
                  LET position == current_position + scroll_increment
                                  + jitter
                  IN  /\ attached' = grown
                      /\ IF ~ ScrollOn(position, PageHeight(grown),
                                       scroll_count + 1)
                         THEN /\ pc' = "after_scroll"
                              /\ DropLocals
                         ELSE /\ pc' = "scroll_loop"
                              /\ current_position' = position
                              /\ scroll_count' = scroll_count + 1
                              /\ scroll_increment' = scroll_increment
    /\ NoQuit
    /\ scroll_call' = TRUE
    /\ NoClear
    /\ NoScrollError
    /\ NoSaveHtml
    /\ UNCHANGED <<orch_vars, unit_vars, page, items, pass>>

\* ScrollIterRaises with 'return item_data' at line 762.
ScrollIterRaisesKeepsItems ==
    /\ pc = "scroll_loop"
    /\ LoopGuard
    /\ \E found \in BOOLEAN :
         LET acc == Enumerated(found)
         IN  /\ ~ EnoughItems(acc.items)
             /\ scroll_error' = [raised |-> TRUE, lost |-> acc.eids]
             /\ item_data' = acc.items
             /\ item_eids' = acc.eids
    /\ pc' = "after_scroll"
    /\ DropLocals
    /\ NoQuit
    /\ scroll_call' \in BOOLEAN
    /\ NoClear
    /\ NoSaveHtml
    /\ UNCHANGED <<orch_vars, unit_vars, page, attached, items, pass>>

\* Lines 741, 748 and 760-762: window.scrollTo or the scrollHeight script
\* raises after the enumeration of lines 689-731; the pass returns [] and
\* what it had collected is dropped.
ScrollIterRaises ==
    /\ pc = "scroll_loop"
    /\ LoopGuard
    /\ \E found \in BOOLEAN :
         LET acc == Enumerated(found)
         IN  /\ ~ EnoughItems(acc.items)
             /\ scroll_error' = [raised |-> TRUE, lost |-> acc.eids]
    /\ item_data' = <<>>
    /\ item_eids' = <<>>
    /\ pc' = "after_scroll"
    /\ DropLocals
    /\ NoQuit
    /\ scroll_call' \in BOOLEAN
    /\ NoClear
    /\ NoSaveHtml
    /\ UNCHANGED <<orch_vars, unit_vars, page, attached, items, pass>>

\* Lines 553-555: the scroll pass found products.
ReturnScrollItems ==
    /\ pc = "after_scroll"
    /\ item_data # <<>>
    /\ items' = item_data
    /\ pass' = "scroll"
    /\ pc' = "evaluate"
    /\ NoQuit
    /\ NoScroll
    /\ NoClear
    /\ NoScrollError
    /\ NoSaveHtml
    /\ UNCHANGED <<orch_vars, unit_vars, page, attached, item_data, item_eids,
                   scroll_count, current_position, scroll_increment>>

\* What lines 561-628 return for the title elements found.
FallbackResult(title_elements) ==
    FallbackExtract(CapItems(FallbackContainers(title_elements, <<>>)),
                    EmptyAcc)

\* Lines 557-628: the scroll pass found nothing, the fallback pass runs.
\* find_elements may raise (lines 587-589: return []).
Fallback ==
    /\ pc = "after_scroll"
    /\ item_data = <<>>
    /\ \E grown \in Grown(page, attached), found \in BOOLEAN :
         LET acc == IF found THEN FallbackResult(Elements(page, grown))
                    ELSE EmptyAcc
         IN  /\ attached' = grown
             /\ items' = acc.items
             /\ item_eids' = acc.eids
    /\ pass' = "fallback"
    /\ pc' = "evaluate"
    /\ NoQuit
    /\ NoScroll
    /\ NoClear
    /\ NoScrollError
    /\ NoSaveHtml
    /\ UNCHANGED <<orch_vars, unit_vars, page, item_data, scroll_count,
                   current_position, scroll_increment>>

NextCollect ==
    \/ SmartScrollStart
    \/ ScrollIterEnough
    \/ ScrollIterScroll
    \/ ScrollIterRaises
    \/ ReturnScrollItems
    \/ Fallback

\* ------------------------------------ get_shopping_data_for_query (801)

ResetCollector ==
    /\ page' = <<>>
    /\ attached' = 0
    /\ item_data' = <<>>
    /\ item_eids' = <<>>
    /\ scroll_count' = 0
    /\ current_position' = 0
    /\ scroll_increment' = 0
    /\ pass' = "none"

\* Released with line 855 left out.
NotReleased(live) == live

\* Lines 851-857: finally: driver.quit() unless the browser is kept open.
Released(live) == IF keep_browser_open THEN live ELSE live \ {cur}

\* AttemptRemains off by one: attempt < max_retries.
AttemptRemainsOffByOne == attempt < max_retries

\* Lines 851-857 as a step takes them.
Release ==
    /\ sessions' = Released(sessions)
    /\ Quit(~ keep_browser_open)

\* Lines 843-844, 848-849, 860-862: continue while an attempt remains.
AttemptRemains == attempt < max_retries - 1

\* A caller invokes get_shopping_data_for_query on the instance.
Call ==
    /\ pc \in {"idle", "done"}
    /\ runs < MaxRuns
    /\ \E mr \in -1..MaxRetriesBound, px \in Proxies, hl \in BOOLEAN :
         /\ max_retries' = mr
         /\ proxy' = px
         /\ headless' = hl
    /\ runs' = runs + 1
    /\ attempt' = 0
    /\ cur' = NoDriver
    /\ items' = <<>>
    /\ outcome' = NoOutcome
    /\ acquire_calls' = 0
    /\ acquired_any' = FALSE
    /\ pc' = "for"
    /\ ResetCollector
    /\ NoQuit
    /\ NoScroll
    /\ NoClear
    /\ NoScrollError
    /\ NoSaveHtml
    /\ UNCHANGED <<keep_browser_open, driver, driver_config, sessions,
                   unit_vars>>

\* NextAttempt without the delay of lines 822-827.
NextAttemptSkipsDelay ==
    /\ pc = "for"
    /\ attempt < max_retries
    /\ pc' = "acquire"
    /\ NoQuit
    /\ NoScroll
    /\ NoClear
    /\ NoScrollError
    /\ NoSaveHtml
    /\ UNCHANGED <<orch_vars, coll_vars, unit_vars>>

\* NextAttempt with a first attempt made whatever max_retries is.
NextAttemptAtLeastOnce ==
    /\ pc = "for"
    /\ attempt < max_retries \/ attempt = 0
    /\ pc' = "delay"
    /\ NoQuit
    /\ NoScroll
    /\ NoClear
    /\ NoScrollError
    /\ NoSaveHtml
    /\ UNCHANGED <<orch_vars, coll_vars, unit_vars>>

\* Line 820: the loop takes up the next attempt.
NextAttempt ==
    /\ pc = "for"
    /\ attempt < max_retries
    /\ pc' = "delay"
    /\ NoQuit
    /\ NoScroll
    /\ NoClear
    /\ NoScrollError
    /\ NoSaveHtml
    /\ UNCHANGED <<orch_vars, coll_vars, unit_vars>>

\* AllAttemptsFailed with 'return []' for lines 868-869.
AllAttemptsReturnEmpty ==
    /\ pc = "for"
    /\ ~ (attempt < max_retries)
    /\ outcome' = Returned(<<>>)
    /\ pc' = "done"
    /\ NoQuit
    /\ NoScroll
    /\ NoClear
    /\ NoScrollError
    /\ NoSaveHtml
    /\ UNCHANGED <<keep_browser_open, driver, driver_config, sessions,
                   max_retries, proxy, headless, attempt, cur,
                   runs, acquire_calls, acquired_any, coll_vars, unit_vars>>

\* Lines 868-869: the loop is over, and no attempt returned.
AllAttemptsFailed ==
    /\ pc = "for"
    /\ ~ (attempt < max_retries)
    /\ outcome' = Raised("DriverGetShoppingDataError")
    /\ pc' = "done"
    /\ NoQuit
    /\ NoScroll
    /\ NoClear
    /\ NoScrollError
    /\ NoSaveHtml
    /\ UNCHANGED <<keep_browser_open, driver, driver_config, sessions,
                   max_retries, proxy, headless, attempt, cur,
                   runs, acquire_calls, acquired_any, coll_vars, unit_vars>>

\* Lines 822-827: _add_random_delay.
Delay ==
    /\ pc = "delay"
    /\ pc' = "acquire"
    /\ NoQuit
    /\ NoScroll
    /\ NoClear
    /\ NoScrollError
    /\ NoSaveHtml
    /\ UNCHANGED <<orch_vars, coll_vars, unit_vars>>

RequestedConfig == [proxy |-> proxy, headless |-> headless]

\* CanReuse with the test of lines 186-189 never met.
NeverReuse == FALSE

\* Lines 186-189.
CanReuse ==
    /\ keep_browser_open
    /\ driver # NoDriver
    /\ driver_config = RequestedConfig

\* Lines 191-195: the kept session answers self._driver.current_url; it is
\* handed to _clear_browser_state (line 833).
AcquireReuse ==
    /\ pc = "acquire"
    /\ CanReuse
    /\ driver \in sessions
    /\ cur' = driver
    /\ acquire_calls' = acquire_calls + 1
    /\ acquired_any' = TRUE
    /\ pc' = "prepare"
    /\ NoQuit
    /\ NoScroll
    /\ ClearBrowserState
    /\ NoScrollError
    /\ NoSaveHtml
    /\ UNCHANGED <<keep_browser_open, driver, driver_config, sessions,
                   max_retries, proxy, headless, attempt, outcome,
                   runs, coll_vars, unit_vars>>

\* DriverAfterProbe without line 198.
DriverKeptAfterProbe == driver

\* Lines 196-198: the probe raised (the kept browser is gone), the session
\* is dropped: what is left of self._driver and of the live sessions.
DriverAfterProbe == IF CanReuse THEN NoDriver ELSE driver
SessionsAfterProbe == IF CanReuse THEN sessions \ {driver} ELSE sessions

\* webdriver.Chrome(...): a session no variable refers to and that is
\* not running.
NewSession ==
    CHOOSE d \in 1..(Cardinality(sessions) + 2) :
        /\ d \notin sessions \cup {driver}
        /\ \A e \in 1..(d - 1) : e \in sessions \cup {driver}

\* Lines 200-204: a new session is created; it is handed to
\* _clear_browser_state (line 833).
AcquireCreate ==
    /\ pc = "acquire"
    /\ sessions' = SessionsAfterProbe \cup {NewSession}
    /\ driver' = NewSession
    /\ driver_config' = RequestedConfig
    /\ cur' = NewSession
    /\ acquire_calls' = acquire_calls + 1
    /\ acquired_any' = TRUE
    /\ pc' = "prepare"
    /\ NoQuit
    /\ NoScroll
    /\ ClearBrowserState
    /\ NoScrollError
    /\ NoSaveHtml
    /\ UNCHANGED <<keep_browser_open, max_retries, proxy, headless, attempt,
                   outcome, runs, coll_vars, unit_vars>>

\* AcquireFails with the error of line 866 replaced by that of line 850.
AcquireFailsAsDataError ==
    /\ pc = "acquire"
    /\ sessions' = SessionsAfterProbe
    /\ driver' = DriverAfterProbe
    /\ acquire_calls' = acquire_calls + 1
    /\ IF AttemptRemains
       THEN /\ attempt' = attempt + 1
            /\ pc' = "for"
            /\ outcome' = outcome
       ELSE /\ attempt' = attempt
            /\ pc' = "done"
            /\ outcome' = Raised("DriverGetShoppingDataError")
    /\ NoQuit
    /\ NoScroll
    /\ NoClear
    /\ NoScrollError
    /\ NoSaveHtml
    /\ UNCHANGED <<keep_browser_open, driver_config, max_retries, proxy,
                   headless, cur, runs, acquired_any, coll_vars, unit_vars>>

\* Line 202 raises, lines 859-866: retry, or DriverInitializationError.
AcquireFails ==
    /\ pc = "acquire"
    /\ sessions' = SessionsAfterProbe
    /\ driver' = DriverAfterProbe
    /\ acquire_calls' = acquire_calls + 1
    /\ IF AttemptRemains
       THEN /\ attempt' = attempt + 1
            /\ pc' = "for"
            /\ outcome' = outcome
       ELSE /\ attempt' = attempt
            /\ pc' = "done"
            /\ outcome' = Raised("DriverInitializationError")
    /\ NoQuit
    /\ NoScroll
    /\ NoClear
    /\ NoScrollError
    /\ NoSaveHtml
    /\ UNCHANGED <<keep_browser_open, driver_config, max_retries, proxy,
                   headless, cur, runs, acquired_any, coll_vars, unit_vars>>

\* The query page as the collector will first see it.
PageLoads ==
    \E p \in RunPages :
      \E a \in AttachedAtLoad(p) :
        /\ page' = p
        /\ attached' = a

\* _click_consent_button raises ConsentFormAcceptError (line 272), a
\* BaseException: neither except clause of lines 846 and 859 catches it;
\* the finally clause runs and the error leaves the call.
ConsentErrorEscapes ==
    /\ Release
    /\ NoScroll
    /\ NoClear
    /\ NoScrollError
    /\ NoSaveHtml
    /\ outcome' = Raised("ConsentFormAcceptError")
    /\ pc' = "done"
    /\ UNCHANGED <<keep_browser_open, driver, driver_config,
                   max_retries, proxy, headless, attempt, cur, runs,
                   acquire_calls, acquired_any, coll_vars, unit_vars>>

\* Line 243: driver.get(url) returns.
NavigateOk ==
    /\ pc = "prepare"
    /\ pc' = "consent"
    /\ NoQuit
    /\ NoScroll
    /\ NoClear
    /\ NoScrollError
    /\ NoSaveHtml
    /\ UNCHANGED <<orch_vars, coll_vars, unit_vars>>

\* Line 243: driver.get(url) raises.
NavigateFails ==
    /\ pc = "prepare"
    /\ ConsentErrorEscapes

\* Lines 250-253 and 268-269: find_element raises NoSuchElementException,
\* which is logged.
ControlNotFound ==
    /\ pc = "consent"
    /\ pc' = "no_control"
    /\ NoQuit
    /\ NoScroll
    /\ NoClear
    /\ NoScrollError
    /\ NoSaveHtml
    /\ UNCHANGED <<orch_vars, coll_vars, unit_vars>>

\* Lines 250-253: find_element raises another exception.
ControlLookupFails ==
    /\ pc = "consent"
    /\ ConsentErrorEscapes

\* Lines 250-253: the consent button is found.
ControlFound ==
    /\ pc = "consent"
    /\ pc' = "click"
    /\ NoQuit
    /\ NoScroll
    /\ NoClear
    /\ NoScrollError
    /\ NoSaveHtml
    /\ UNCHANGED <<orch_vars, coll_vars, unit_vars>>

\* Lines 256-266: the button is scrolled to and clicked.
ClickOk ==
    /\ pc = "click"
    /\ pc' = "clicked"
    /\ NoQuit
    /\ NoScroll
    /\ NoClear
    /\ NoScrollError
    /\ NoSaveHtml
    /\ UNCHANGED <<orch_vars, coll_vars, unit_vars>>

\* Lines 256-264: scrollIntoView or the move-then-click raises.
ClickFails ==
    /\ pc = "click"
    /\ ConsentErrorEscapes

\* WaitAfterConsent with lines 274-278 inside the try of line 242, and
\* failing.
WaitAfterConsentRaises ==
    /\ pc \in {"no_control", "clicked"}
    /\ ConsentErrorEscapes

\* Lines 274-278: with the button clicked or not there, the page is waited
\* for and _click_consent_button returns.
WaitAfterConsent ==
    /\ pc \in {"no_control", "clicked"}
    /\ PageLoads
    /\ pc' = "collect"
    /\ NoQuit
    /\ NoScroll
    /\ NoClear
    /\ NoScrollError
    /\ NoSaveHtml
    /\ UNCHANGED <<orch_vars, unit_vars, item_data, item_eids, scroll_count,
                   current_position, scroll_increment, items, pass>>

\* Lines 240-241 raise an Exception (building the URL, logging), lines
\* 846-857: retry, or DriverGetShoppingDataError.
PrepareException ==
    /\ pc = "prepare"
    /\ Release
    /\ NoScroll
    /\ NoClear
    /\ NoScrollError
    /\ NoSaveHtml
    /\ IF AttemptRemains
       THEN /\ attempt' = attempt + 1
            /\ pc' = "for"
            /\ outcome' = outcome
       ELSE /\ attempt' = attempt
            /\ pc' = "done"
            /\ outcome' = Raised("DriverGetShoppingDataError")
    /\ UNCHANGED <<keep_browser_open, driver, driver_config,
                   max_retries, proxy, headless, cur, runs, acquire_calls,
                   acquired_any, coll_vars, unit_vars>>

\* Lines 838-840: items were found, they are returned.
EvaluateItems ==
    /\ pc = "evaluate"
    /\ items # <<>>
    /\ Release
    /\ NoScroll
    /\ NoClear
    /\ NoScrollError
    /\ NoSaveHtml
    /\ outcome' = Returned(items)
    /\ pc' = "done"
    /\ ResetCollector
    /\ UNCHANGED <<keep_browser_open, driver, driver_config,
                   max_retries, proxy, headless, attempt, cur, runs,
                   acquire_calls, acquired_any, items, unit_vars>>

\* EvaluateEmpty with line 838 dropped: the empty list is returned.
EvaluateEmptyReturns ==
    /\ pc = "evaluate"
    /\ items = <<>>
    /\ Release
    /\ NoScroll
    /\ NoClear
    /\ NoScrollError
    /\ NoSaveHtml
    /\ outcome' = Returned(items)
    /\ pc' = "done"
    /\ ResetCollector
    /\ UNCHANGED <<keep_browser_open, driver, driver_config,
                   max_retries, proxy, headless, attempt, cur, runs,
                   acquire_calls, acquired_any, items, unit_vars>>

\* Lines 841-844: nothing found; on to the next attempt, or out of the loop.
EvaluateEmpty ==
    /\ pc = "evaluate"
    /\ items = <<>>
    /\ Release
    /\ NoScroll
    /\ NoClear
    /\ NoScrollError
    /\ NoSaveHtml
    /\ attempt' = attempt + 1
    /\ pc' = "for"
    /\ ResetCollector
    /\ UNCHANGED <<keep_browser_open, driver, driver_config,
                   max_retries, proxy, headless, cur, outcome, runs,
                   acquire_calls, acquired_any, items, unit_vars>>

\* CloseBrowser without the test of line 220.
CloseBrowserUnguarded ==
    /\ pc \in {"idle", "done"}
    /\ Quit(TRUE)
    /\ NoScroll
    /\ NoClear
    /\ NoScrollError
    /\ NoSaveHtml
    /\ sessions' = sessions \ {driver}
    /\ driver' = NoDriver
    /\ driver_config' = EmptyConfig
    /\ UNCHANGED <<keep_browser_open, max_retries, proxy, headless,
                   attempt, cur, outcome, runs, acquire_calls, acquired_any,
                   coll_vars, unit_vars, pc>>

\* CloseBrowser without the finally clause of lines 226-228.
CloseBrowserNoFinally ==
    /\ pc \in {"idle", "done"}
    /\ IF driver # NoDriver
       THEN /\ Quit(TRUE)
            /\ sessions' = sessions \ {driver}
            /\ IF quit_call' = "ok"
               THEN driver' = NoDriver /\ driver_config' = EmptyConfig
               ELSE UNCHANGED <<driver, driver_config>>
       ELSE /\ NoQuit
            /\ UNCHANGED <<sessions, driver, driver_config>>
    /\ NoScroll
    /\ NoClear
    /\ NoScrollError
    /\ NoSaveHtml
    /\ UNCHANGED <<keep_browser_open, max_retries, proxy, headless,
                   attempt, cur, outcome, runs, acquire_calls, acquired_any,
                   coll_vars, unit_vars, pc>>

\* close_browser (218-228) between two calls: quit() on self._driver if
\* there is one, whose error is logged, then no driver and no configuration.
CloseBrowser ==
    /\ pc \in {"idle", "done"}
    /\ IF driver # NoDriver
       THEN /\ Quit(TRUE)
            /\ sessions' = sessions \ {driver}
            /\ driver' = NoDriver
            /\ driver_config' = EmptyConfig
       ELSE /\ NoQuit
            /\ UNCHANGED <<sessions, driver, driver_config>>
    /\ NoScroll
    /\ NoClear
    /\ NoScrollError
    /\ NoSaveHtml
    /\ UNCHANGED <<keep_browser_open, max_retries, proxy, headless,
                   attempt, cur, outcome, runs, acquire_calls, acquired_any,
                   coll_vars, unit_vars, pc>>

\* __del__ (230-236) between two calls: quit() on self._driver if there is
\* one, whose error is dropped; the instance is gone.
Del ==
    /\ pc \in {"idle", "done"}
    /\ Quit(driver # NoDriver)
    /\ NoScroll
    /\ NoClear
    /\ NoScrollError
    /\ NoSaveHtml
    /\ sessions' = sessions \ {driver}
    /\ pc' = "deleted"
    /\ UNCHANGED <<keep_browser_open, driver, driver_config, max_retries,
                   proxy, headless, attempt, cur, outcome, runs,
                   acquire_calls, acquired_any, coll_vars, unit_vars>>

NextRun ==
    \/ Call
    \/ NextAttempt
    \/ AllAttemptsFailed
    \/ Delay
    \/ AcquireReuse
    \/ AcquireCreate
    \/ AcquireFails
    \/ PrepareException
    \/ NavigateOk
    \/ NavigateFails
    \/ ControlNotFound
    \/ ControlLookupFails
    \/ ControlFound
    \/ ClickOk
    \/ ClickFails
    \/ WaitAfterConsent
    \/ EvaluateItems
    \/ EvaluateEmpty
    \/ CloseBrowser
    \/ Del

\* ---------------------------------------------------------- specifications

InitCollector ==
    /\ page = <<>>
    /\ attached = 0
    /\ item_data = <<>>
    /\ item_eids = <<>>
    /\ scroll_count = 0
    /\ current_position = 0
    /\ scroll_increment = 0
    /\ items = <<>>
    /\ pass = "none"

InitExtractor ==
    /\ ex_div = Div(1, None, "v", ValidTitle, PriceText, None)
    /\ ex_item = NoneItem
    /\ ex_pc = "off"

\* The readiness detector is not looked at.
DetectorOff ==
    /\ rd_pc = "off"
    /\ rd_page = <<>>
    /\ rd_sel = 0
    /\ rd_waited = 0
    /\ rd_polled = 0
    /\ rd_samples = <<>>
    /\ rd_result = "none"

\* No call of _add_random_delay yet.
NoCall ==
    [instance |-> 0, attempt |-> 0, fast |-> FALSE, lo |-> 0, hi |-> 0,
     spacing |-> 0, delay |-> 0]

\* _add_random_delay is not looked at.
DelayOff ==
    /\ dl_now = 0
    /\ dl_fast = <<>>
    /\ dl_last = <<>>
    /\ dl_call = NoCall
    /\ dl_done = 0
    /\ dl_calls = 0

\* _global_scraper = None, and no scraper at hand.
NoScraper == [none |-> TRUE]

NoRequest == [fast |-> FALSE, keep_browser |-> FALSE, headless |-> TRUE]

NoResponse == [kind |-> "none", status |-> 0, detail |-> ""]

\* No request has reached the API.
ApiOff ==
    /\ api_pc = "off"
    /\ api_global = NoScraper
    /\ api_req = NoRequest
    /\ api_scraper = NoScraper
    /\ api_response = NoResponse
    /\ api_requests = 0
    /\ api_waiting = 0
    /\ api_active = 0
    /\ api_made = 0

UnitsOff == DetectorOff /\ DelayOff /\ ApiOff

\* A scraper instance after __init__ (49-56), before any call.
Init ==
    /\ keep_browser_open \in BOOLEAN
    /\ driver = NoDriver
    /\ driver_config = EmptyConfig
    /\ sessions = {}
    /\ pc = "idle"
    /\ max_retries = 0
    /\ proxy = None
    /\ headless = TRUE
    /\ attempt = 0
    /\ cur = NoDriver
    /\ outcome = NoOutcome
    /\ runs = 0
    /\ acquire_calls = 0
    /\ quit_call = "none"
    /\ scroll_call = FALSE
    /\ clear_call = "none"
    /\ scroll_error = NoError
    /\ debug_call = "none"
    /\ logger = ApiLogger
    /\ acquired_any = FALSE
    /\ InitCollector
    /\ InitExtractor
    /\ UnitsOff

Next == NextRun \/ NextCollect

Spec == Init /\ [][Next]_vars

\* max_retries: int = 3
DefaultMaxRetries == 3

\* The first attempt of a call, at the entry of _get_items_for_query.
InitCollect ==
    /\ keep_browser_open = FALSE
    /\ driver = 1
    /\ driver_config = [proxy |-> None, headless |-> TRUE]
    /\ sessions = {1}
    /\ pc = "collect"
    /\ max_retries = DefaultMaxRetries
    /\ proxy = None
    /\ headless = TRUE
    /\ attempt = 0
    /\ cur = 1
    /\ outcome = NoOutcome
    /\ runs = 1
    /\ acquire_calls = 1
    /\ quit_call = "none"
    /\ scroll_call = FALSE
    /\ clear_call = "none"
    /\ scroll_error = NoError
    /\ debug_call = "none"
    /\ logger = ApiLogger
    /\ acquired_any = TRUE
    /\ page \in CollectPages
    /\ attached \in AttachedAtLoad(page)
    /\ item_data = <<>>
    /\ item_eids = <<>>
    /\ scroll_count = 0
    /\ current_position = 0
    /\ scroll_increment = 0
    /\ items = <<>>
    /\ pass = "none"
    /\ InitExtractor
    /\ UnitsOff

SpecCollect == InitCollect /\ [][NextCollect]_vars

\* The entry of _get_items_for_query in a scraper made with any logger.
InitDebug ==
    /\ keep_browser_open = FALSE
    /\ driver = 1
    /\ driver_config = [proxy |-> None, headless |-> TRUE]
    /\ sessions = {1}
    /\ pc = "collect"
    /\ max_retries = DefaultMaxRetries
    /\ proxy = None
    /\ headless = TRUE
    /\ attempt = 0
    /\ cur = 1
    /\ outcome = NoOutcome
    /\ runs = 1
    /\ acquire_calls = 1
    /\ quit_call = "none"
    /\ scroll_call = FALSE
    /\ clear_call = "none"
    /\ scroll_error = NoError
    /\ debug_call = "none"
    /\ logger \in Loggers
    /\ acquired_any = TRUE
    /\ page \in RunPages
    /\ attached \in AttachedAtLoad(page)
    /\ item_data = <<>>
    /\ item_eids = <<>>
    /\ scroll_count = 0
    /\ current_position = 0
    /\ scroll_increment = 0
    /\ items = <<>>
    /\ pass = "none"
    /\ InitExtractor
    /\ UnitsOff

SpecDebug == InitDebug /\ [][NextCollect]_vars

\* ------------------------------------------- the field extractor on its own

\* The texts of at most n characters over the alphabet A.
Texts(A, n) == UNION {[1..k -> A] : k \in 0..n}

\* What the title element of a container may hold.
TitleInputs == Texts({" ", "a"}, MaxStrLen) \cup {Absent, Stale}

\* What its price element may hold.
PriceInputs == Texts({" ", "$", "1"}, MaxStrLen) \cup {Absent, Stale}

\* The aria-label of the price element: none, unreadable, empty, a price
\* announced as one, an amount not announced as a price, and a label that
\* names a price without an amount.
AriaInputs ==
    {None, Stale, <<>>, AriaPrice, <<"INR", "2">>,
     <<"P", "r", "i", "c", "e">>}

\* A container with a title and a price, and nothing else.
PlainDiv == Div(1, None, "v", ValidTitle, PriceText, None)

\* The longest review text.
MaxReviewLen == 3

\* What the review element of a container may hold.
ReviewInputs == Texts({" ", "1", ".", "a"}, MaxReviewLen) \cup {Absent, Stale}

Img(src, data_src) == [src |-> src, data_src |-> data_src]

InlineImg == Img(<<"data:image/", "png">>, None)
ShoppingTbnImg == Img(<<"http", "encrypted-tbn", "shopping?q=tbn:">>, None)
TbnImg == Img(<<"http", "encrypted-tbn">>, None)
LazyTbnImg == Img(<<"/", "blank">>, <<"http", "encrypted-tbn", "lazy">>)
HttpImg == Img(<<"http", "a">>, None)
OtherHttpImg == Img(<<"http", "b">>, None)
LogoImg == Img(<<"http", "LOGO">>, None)
NoSrcImg == Img(None, None)
EmptySrcImg == Img(<<>>, <<>>)
StaleImg == Img(Stale, None)
StaleLazyImg == Img(None, Stale)

\* The img elements a lookup may find.
ImgInputs ==
    {InlineImg, ShoppingTbnImg, TbnImg, LazyTbnImg, HttpImg, OtherHttpImg,
     LogoImg, NoSrcImg, EmptySrcImg, StaleImg, StaleLazyImg}

\* The most img elements inside a container.
MaxImgs == 2

\* The containers _get_data_from_item_div is called on: every title, price
\* and aria-label; every review; every list of images inside the container,
\* with some outside it; and the optional elements missing or unreadable.
ExtractInputs ==
    {Div(1, None, "v", t, p, a) :
        t \in TitleInputs, p \in PriceInputs, a \in AriaInputs}
    \cup {[PlainDiv EXCEPT !.review = r] : r \in ReviewInputs}
    \cup {[PlainDiv EXCEPT !.imgs_in = i, !.imgs_sib = sb, !.imgs_parent = pa] :
            i \in Texts(ImgInputs, MaxImgs),
            sb \in {<<>>, <<InlineImg>>, <<HttpImg>>, LookupRaises},
            pa \in {<<>>, <<ShoppingTbnImg>>, LookupRaises}}
    \cup {[Div(1, None, "v", ValidTitle, p, AriaPrice) EXCEPT
                !.delivery = dl, !.review = r, !.href = h, !.imgs_in = i] :
            p \in {PriceText, <<" ">>},
            dl \in {Absent, Stale, <<" ", "f", "r", "e", "e">>},
            r \in {Absent, Stale, <<"1">>},
            h \in {Absent, Stale, <<"http", "shop">>},
            i \in {<<>>, LookupRaises, <<StaleImg>>, <<HttpImg>>}}

InitExtract ==
    /\ keep_browser_open = FALSE
    /\ driver = NoDriver
    /\ driver_config = EmptyConfig
    /\ sessions = {}
    /\ pc = "extract"
    /\ max_retries = DefaultMaxRetries
    /\ proxy = None
    /\ headless = TRUE
    /\ attempt = 0
    /\ cur = NoDriver
    /\ outcome = NoOutcome
    /\ runs = 0
    /\ acquire_calls = 0
    /\ quit_call = "none"
    /\ scroll_call = FALSE
    /\ clear_call = "none"
    /\ scroll_error = NoError
    /\ debug_call = "none"
    /\ logger = ApiLogger
    /\ acquired_any = FALSE
    /\ InitCollector
    /\ ex_div \in ExtractInputs
    /\ ex_item = NoneItem
    /\ ex_pc = "ready"
    /\ UnitsOff

\* One call of _get_data_from_item_div (280-426).
Extract ==
    /\ ex_pc = "ready"
    /\ ex_item' = GetDataFromItemDiv(ex_div)
    /\ ex_pc' = "done"
    /\ NoQuit
    /\ NoScroll
    /\ NoClear
    /\ NoScrollError
    /\ NoSaveHtml
    /\ UNCHANGED <<orch_vars, coll_vars, ex_div, pc, rd_vars, dl_vars,
                   api_vars>>

SpecExtract == InitExtract /\ [][Extract]_vars

\* --------------------------------------- the readiness detector on its own

\* A scraper that is not running a call.
ScraperOff ==
    /\ keep_browser_open = FALSE
    /\ driver = NoDriver
    /\ driver_config = EmptyConfig
    /\ sessions = {}
    /\ pc = "unit"
    /\ max_retries = DefaultMaxRetries
    /\ proxy = None
    /\ headless = TRUE
    /\ attempt = 0
    /\ cur = NoDriver
    /\ outcome = NoOutcome
    /\ runs = 0
    /\ acquire_calls = 0
    /\ quit_call = "none"
    /\ scroll_call = FALSE
    /\ clear_call = "none"
    /\ scroll_error = NoError
    /\ debug_call = "none"
    /\ logger = ApiLogger
    /\ acquired_any = FALSE
    /\ InitCollector

\* The step is one of a part run on its own.
UnitStep ==
    /\ NoQuit
    /\ NoScroll
    /\ NoClear
    /\ NoScrollError
    /\ NoSaveHtml
    /\ UNCHANGED <<orch_vars, coll_vars, pc>>

\* selectors_to_wait_for: ".gkQHve", ".lmQWe", "[data-hveid]",
\* ".sh-dgr__content"
Selectors == 1..4

\* timeout: int = 8, in polls of WebDriverWait (one every 0.5 s).
PollsPerTimeout == 2

\* The selector is never present: not before the last poll there can be.
Never == 4 * PollsPerTimeout + 1

\* When an element for a selector is first there: at once, after more
\* than one timeout, or never.
AppearAt == {0, PollsPerTimeout + 1, Never}

\* The counts of .gkQHve elements a sample may give.
Counts == 0..2

\* Stable with line 499 as current == previous alone.
StableIgnoringZero(previous, current) == current = previous

\* Line 499.
Stable(previous, current) == current = previous /\ current > 0

PreviousCount == IF rd_samples = <<>> THEN 0 ELSE rd_samples[Len(rd_samples)]

InitReady ==
    /\ ScraperOff
    /\ InitExtractor
    /\ rd_pc = "poll"
    /\ rd_page \in [Selectors -> AppearAt]
    /\ rd_sel = 1
    /\ rd_waited = 0
    /\ rd_polled = 0
    /\ rd_samples = <<>>
    /\ rd_result = "none"
    /\ DelayOff
    /\ ApiOff

\* Lines 445-448: wait.until finds an element for the selector: break.
PollFound ==
    /\ rd_pc = "poll"
    /\ rd_page[rd_sel] <= rd_polled
    /\ rd_pc' = "sample"
    /\ UNCHANGED <<rd_page, rd_sel, rd_waited, rd_polled, rd_samples,
                   rd_result>>
    /\ UnitStep /\ UNCHANGED <<ex_vars, dl_vars, api_vars>>

\* wait.until finds nothing and polls again.
PollAgain ==
    /\ rd_pc = "poll"
    /\ rd_page[rd_sel] > rd_polled
    /\ rd_waited < PollsPerTimeout
    /\ rd_waited' = rd_waited + 1
    /\ rd_polled' = rd_polled + 1
    /\ UNCHANGED <<rd_pc, rd_page, rd_sel, rd_samples, rd_result>>
    /\ UnitStep /\ UNCHANGED <<ex_vars, dl_vars, api_vars>>

\* Lines 449-450: wait.until raises TimeoutException: continue with the
\* next selector, each with a timeout of its own; after the last one the
\* stability check runs.
PollTimeout ==
    /\ rd_pc = "poll"
    /\ rd_page[rd_sel] > rd_polled
    /\ rd_waited = PollsPerTimeout
    /\ IF rd_sel + 1 \in Selectors
       THEN /\ rd_sel' = rd_sel + 1
            /\ rd_pc' = "poll"
       ELSE /\ rd_sel' = rd_sel
            /\ rd_pc' = "sample"
    /\ rd_waited' = 0
    /\ UNCHANGED <<rd_page, rd_polled, rd_samples, rd_result>>
    /\ UnitStep /\ UNCHANGED <<ex_vars, dl_vars, api_vars>>

\* PollError with the exception leaving _wait_for_javascript_rendering.
PollErrorEscapes ==
    /\ rd_pc = "poll"
    /\ rd_pc' = "raised"
    /\ rd_result' = "query_error"
    /\ UNCHANGED <<rd_page, rd_sel, rd_waited, rd_polled, rd_samples>>
    /\ UnitStep /\ UNCHANGED <<ex_vars, dl_vars, api_vars>>

\* Lines 463-464: the element query of wait.until raises something else
\* than a timeout; it is logged and the wait returns.
PollError ==
    /\ rd_pc = "poll"
    /\ rd_pc' = "returned"
    /\ rd_result' = "query_error"
    /\ UNCHANGED <<rd_page, rd_sel, rd_waited, rd_polled, rd_samples>>
    /\ UnitStep /\ UNCHANGED <<ex_vars, dl_vars, api_vars>>

\* Lines 496-504, one round of the loop of _quick_stability_check: the
\* count is taken and compared with the one before.
Sample ==
    /\ rd_pc = "sample"
    /\ \E count \in Counts :
         /\ rd_samples' = Append(rd_samples, count)
         /\ IF Stable(PreviousCount, count)
            THEN rd_pc' = "returned" /\ rd_result' = "stable"
            ELSE IF Len(rd_samples) + 1 = 2
                 THEN rd_pc' = "returned" /\ rd_result' = "completed"
                 ELSE rd_pc' = "sample" /\ rd_result' = rd_result
    /\ UNCHANGED <<rd_page, rd_sel, rd_waited, rd_polled>>
    /\ UnitStep /\ UNCHANGED <<ex_vars, dl_vars, api_vars>>

\* Lines 509-510: find_elements raises; it is logged and the check
\* returns, and so does the wait.
SampleError ==
    /\ rd_pc = "sample"
    /\ rd_pc' = "returned"
    /\ rd_result' = "stability_error"
    /\ UNCHANGED <<rd_page, rd_sel, rd_waited, rd_polled, rd_samples>>
    /\ UnitStep /\ UNCHANGED <<ex_vars, dl_vars, api_vars>>

NextReady ==
    \/ PollFound
    \/ PollAgain
    \/ PollTimeout
    \/ PollError
    \/ Sample
    \/ SampleError

SpecReady == InitReady /\ [][NextReady]_vars

\* ------------------------------------------ _add_random_delay on its own

\* The scraper instances of one process.
Instances == {1, 2}

\* Calls of _add_random_delay looked at.
MaxDelayCalls == 3

\* time.time() when the first call is made, in tenths of a second: long
\* after time 0.
Epoch == 20

\* Lines 825 and 827: the arguments of the call at a retry and at the first
\* attempt, in tenths of a second.
DelayArgs(att) ==
    IF att > 0 THEN [min_delay |-> 50, max_delay |-> 100]
    ELSE [min_delay |-> 10, max_delay |-> 30]

\* Lines 72-74: x * 0.3 in fast mode.
Reduced(x, fast) == IF fast THEN (x * 3) \div 10 ELSE x

\* MinTimeBetweenRequests without fast mode.
SameTimeBetweenRequests(fast) == 10

\* Line 80.
MinTimeBetweenRequests(fast) == IF fast THEN 5 ELSE 10

InitDelay ==
    /\ ScraperOff
    /\ InitExtractor
    /\ DetectorOff
    /\ ApiOff
    /\ dl_now = Epoch
    /\ dl_fast \in [Instances -> BOOLEAN]
    /\ dl_last = [i \in Instances |-> 0]
    /\ dl_call = NoCall
    /\ dl_done = 0
    /\ dl_calls = 0

\* One call of _add_random_delay (70-90) by an instance, at its first
\* attempt or at a retry (822-827), right after the call before it: the
\* wait for the minimum spacing, then the random delay.
AddRandomDelay ==
    /\ dl_calls < MaxDelayCalls
    /\ \E i \in Instances, att \in 0..1 :
         LET fast == dl_fast[i]
             min_delay == Reduced(DelayArgs(att).min_delay, fast)
             max_delay == Reduced(DelayArgs(att).max_delay, fast)
             time_since_last_request == dl_now - dl_last[i]
             min_time_between_requests == MinTimeBetweenRequests(fast)
             additional_delay ==
                 IF time_since_last_request < min_time_between_requests
                 THEN min_time_between_requests - time_since_last_request
                 ELSE 0
         IN  \E delay \in {min_delay, max_delay} :
               /\ dl_now' = dl_now + additional_delay + delay
               /\ dl_last' = [dl_last EXCEPT ![i] = dl_now']
               /\ dl_call' = [instance |-> i, attempt |-> att,
                              fast |-> fast, lo |-> min_delay,
                              hi |-> max_delay,
                              spacing |-> min_time_between_requests,
                              delay |-> delay]
    /\ dl_done' = dl_now
    /\ dl_calls' = dl_calls + 1
    /\ UNCHANGED dl_fast
    /\ UnitStep /\ UNCHANGED <<ex_vars, rd_vars, api_vars>>

SpecDelay == InitDelay /\ [][AddRandomDelay]_vars

\* ------------------------------------------------- the /scrape handler

\* Requests looked at.
MaxRequests == 3

\* GoogleShoppingScraper(logger=logger, fast_mode=..., keep_browser_open=...)
NewScraper(fast_mode, keep) ==
    [fast_mode |-> fast_mode, keep_browser_open |-> keep]

\* The errors get_shopping_data_for_query raises (scraper.py 34-43).
ScraperErrors ==
    {"ConsentFormAcceptError", "DriverInitializationError",
     "DriverGetShoppingDataError"}

\* The response model is returned.
Json(n) == [kind |-> "json", status |-> 200, detail |-> ToString(n)]

\* Line 159.
HttpError(err) == [kind |-> "http_error", status |-> 500, detail |-> err]

\* The error leaves the handler as it is: it is a BaseException, which
\* 'except Exception' of line 157 does not catch.
Uncaught(err) == [kind |-> "uncaught", status |-> 0, detail |-> err]

InitApi ==
    /\ ScraperOff
    /\ InitExtractor
    /\ DetectorOff
    /\ DelayOff
    /\ api_pc = "idle"
    /\ api_global = NoScraper
    /\ api_req = NoRequest
    /\ api_scraper = NoScraper
    /\ api_response = NoResponse
    /\ api_requests = 0
    /\ api_waiting = 0
    /\ api_active = 0
    /\ api_made = 0

ApiStep == UnitStep /\ UNCHANGED <<ex_vars, rd_vars, dl_vars>>

\* A handler declared with def, which the server runs on a thread of its
\* pool, whatever the other handlers are doing.
ThreadPerRequest == TRUE

\* Lines 80-81 and 162-163: the handlers are coroutines (async def) without
\* an await, which the event loop runs one at a time, each to its end; one
\* starts only when none is running.
LoopFree == api_pc = "idle"

\* A client sends /scrape, at any time; the request waits for the event
\* loop.
Arrive ==
    /\ api_requests + api_waiting < MaxRequests
    /\ api_waiting' = api_waiting + 1
    /\ UNCHANGED <<api_pc, api_global, api_req, api_scraper, api_response,
                   api_requests, api_active, api_made>>
    /\ ApiStep

\* Lines 81-120: the handler of a waiting request starts and the scraper to
\* use is chosen: the global one with keep_browser, made at the first such
\* request, and a new one otherwise; get_shopping_data_for_query is called.
Request ==
    /\ LoopFree
    /\ api_waiting > 0
    /\ \E fast \in BOOLEAN, keep_browser \in BOOLEAN, hl \in BOOLEAN :
         /\ api_req' = [fast |-> fast, keep_browser |-> keep_browser,
                        headless |-> hl]
         /\ IF keep_browser
            THEN /\ api_global' = IF api_global = NoScraper
                                  THEN NewScraper(fast, TRUE)
                                  ELSE api_global
                 /\ api_made' = IF api_global = NoScraper
                                THEN api_made + 1 ELSE api_made
                 /\ api_scraper' = api_global'
                 /\ api_active' = api_active + 1
            ELSE /\ api_scraper' = NewScraper(fast, FALSE)
                 /\ api_global' = api_global
                 /\ UNCHANGED <<api_made, api_active>>
    /\ api_pc' = "running"
    /\ api_response' = NoResponse
    /\ api_requests' = api_requests + 1
    /\ api_waiting' = api_waiting - 1
    /\ ApiStep

\* Lines 113 and 117 with scraper.py 57-61: the scraper cannot be made
\* (the debug directory is gone again and os.makedirs raises OSError, an
\* Exception); lines 157-159 answer 500.
RequestFailsToConstruct ==
    /\ LoopFree
    /\ api_waiting > 0
    /\ \E fast \in BOOLEAN, keep_browser \in BOOLEAN, hl \in BOOLEAN :
         /\ api_req' = [fast |-> fast, keep_browser |-> keep_browser,
                        headless |-> hl]
         /\ ~ keep_browser \/ api_global = NoScraper
    /\ api_response' = HttpError("OSError")
    /\ api_pc' = "idle"
    /\ api_requests' = api_requests + 1
    /\ api_waiting' = api_waiting - 1
    /\ UNCHANGED <<api_global, api_scraper, api_active, api_made>>
    /\ ApiStep

\* The call of line 120 on the global scraper is over.
Left == IF api_req.keep_browser THEN api_active - 1 ELSE api_active

\* Lines 120 and 131-155: get_shopping_data_for_query returns its items,
\* which are never none, and the response is built.
RunReturns ==
    /\ api_pc = "running"
    /\ \E n \in {1, TargetCount} : api_response' = Json(n)
    /\ api_pc' = "idle"
    /\ api_active' = Left
    /\ UNCHANGED <<api_global, api_req, api_scraper, api_requests,
                   api_waiting, api_made>>
    /\ ApiStep

\* Line 120: get_shopping_data_for_query raises one of its errors.
RunRaises ==
    /\ api_pc = "running"
    /\ \E err \in ScraperErrors : api_response' = Uncaught(err)
    /\ api_pc' = "idle"
    /\ api_active' = Left
    /\ UNCHANGED <<api_global, api_req, api_scraper, api_requests,
                   api_waiting, api_made>>
    /\ ApiStep

\* /cleanup (162-175): close_browser on the global scraper, which is then
\* let go.
Cleanup ==
    /\ LoopFree
    /\ api_global # NoScraper
    /\ api_global' = NoScraper
    /\ UNCHANGED <<api_pc, api_req, api_scraper, api_response, api_requests,
                   api_waiting, api_active, api_made>>
    /\ ApiStep

NextApi ==
    \/ Arrive
    \/ Request
    \/ RequestFailsToConstruct
    \/ RunReturns
    \/ RunRaises
    \/ Cleanup

SpecApi == InitApi /\ [][NextApi]_vars

\* ------------------------------------------------ properties: the retry loop

\* Where a call stands while _click_consent_button runs.
PreparePcs == {"prepare", "consent", "click", "no_control", "clicked"}

InitializationError == Raised("DriverInitializationError")
GetShoppingDataError == Raised("DriverGetShoppingDataError")

\* C1: a call with max_retries = n >= 1 in which no acquisition has
\* succeeded has returned nothing and made at most n acquisition attempts;
\* once it has ended it has made exactly n of them and has raised
\* DriverInitializationError.
C1_RetryExhaustion ==
    (runs >= 1 /\ max_retries >= 1 /\ ~ acquired_any) =>
        /\ outcome.kind # "returned"
        /\ items = <<>>
        /\ acquire_calls <= max_retries
        /\ pc = "done" => /\ acquire_calls = max_retries
                          /\ outcome = InitializationError

\* Three acquisitions out of three have failed, and the call has ended.
C1_Witness ==
    /\ pc = "done"
    /\ max_retries = DefaultMaxRetries
    /\ ~ acquired_any
    /\ acquire_calls = DefaultMaxRetries
    /\ outcome = InitializationError

\* C2: an attempt that collected items ends the call with exactly these
\* items, and a call that has returned starts nothing more; an attempt that
\* collected nothing leads to the next attempt when one remains, and the
\* loop that has run out of attempts raises DriverGetShoppingDataError.
C2_Evaluate ==
    [][/\ (pc = "evaluate" /\ items # <<>>) =>
              (pc' = "done" /\ outcome' = Returned(items))
       /\ (outcome.kind = "returned" /\ runs' = runs) =>
              (pc' \in {"done", "deleted"} /\ outcome' = outcome
               /\ acquire_calls' = acquire_calls)
       /\ (pc = "evaluate" /\ items = <<>>) =>
              (pc' = "for" /\ attempt' = attempt + 1 /\ outcome' = outcome)
       /\ (pc = "for" /\ attempt < max_retries) =>
              (pc' = "delay" /\ attempt' = attempt)
       /\ (pc = "for" /\ ~ (attempt < max_retries)) =>
              (pc' = "done" /\ outcome' = GetShoppingDataError)
      ]_vars

\* The second of two attempts collected nothing, and the call has raised.
C2_Witness ==
    /\ pc = "done"
    /\ max_retries = 2
    /\ attempt = max_retries
    /\ acquired_any
    /\ outcome = GetShoppingDataError

\* C3: a call that raises raises DriverInitializationError or
\* DriverGetShoppingDataError, and has made max_retries attempts by then.
C3_TerminalStates ==
    outcome.kind = "raised" =>
        /\ outcome \in {InitializationError, GetShoppingDataError}
        /\ acquire_calls = max_retries

\* C4: an attempt that fails after the session was acquired is followed by
\* the next attempt when one remains, and ends the call with
\* DriverGetShoppingDataError when it is the last.
C4_PrepareFailureRetried ==
    [][(pc \in PreparePcs /\ pc' \notin PreparePcs \cup {"collect"}) =>
          IF AttemptRemains
          THEN pc' = "for" /\ attempt' = attempt + 1 /\ outcome' = outcome
          ELSE pc' = "done" /\ outcome' = GetShoppingDataError
      ]_vars

\* C5 as stated, for the calls in which no navigation failed:
\* DriverInitializationError is raised only when no attempt acquired a
\* session, and a failed call that acquired one raises
\* DriverGetShoppingDataError.
C5_InitErrorOnlyWithoutSession ==
    (outcome.kind = "raised" /\ outcome.error # "ConsentFormAcceptError") =>
        /\ outcome = InitializationError => ~ acquired_any
        /\ acquired_any => outcome = GetShoppingDataError

\* C5, amended: DriverInitializationError is raised exactly when the
\* acquisition of the last attempt fails, whatever earlier attempts
\* acquired; a call that fails after its last attempt acquired a session
\* raises another error.
C5_InitErrorIffLastAcquireFails ==
    [][/\ (outcome' # outcome /\ outcome' = InitializationError) =>
              (pc = "acquire" /\ attempt = max_retries - 1 /\ cur' = cur)
       /\ (pc = "acquire" /\ attempt = max_retries - 1 /\ pc' # "prepare")
              => (pc' = "done" /\ outcome' = InitializationError)
       /\ (pc \in PreparePcs \cup {"evaluate", "for"} /\ pc' = "done")
              => outcome' # InitializationError
      ]_vars

\* An attempt acquired a session, the last one did not.
C5_Witness ==
    /\ pc = "done"
    /\ acquired_any
    /\ outcome = InitializationError

\* ------------------------------------------ properties: the field extractor

\* The title of a container is missing, or empty after trimming.
TitleMissing(div) ==
    \/ div.title \in {Absent, Stale}
    \/ \A i \in 1..Len(div.title) : div.title[i] \in Whitespace

\* An amount announced as a price by the aria-label.
AriaAnnouncesPrice(div) ==
    /\ div.aria \notin {None, Stale}
    /\ Contains(Lower(div.aria), PriceWord)
    /\ \E i \in 1..Len(div.aria) : MatchAt(div.aria, i) # NoMatch

\* The price of a container is missing, or empty after trimming with no
\* amount in the aria-label to stand in for it.
PriceMissing(div) ==
    \/ div.price \in {Absent, Stale}
    \/ /\ \A i \in 1..Len(div.price) : div.price[i] \in Whitespace
       /\ ~ AriaAnnouncesPrice(div)

\* C6: an item returned by _get_data_from_item_div has a title and a price
\* that are not empty, and a container whose title or price is missing or
\* empty after trimming yields None.
C6_TitleAndPrice ==
    ex_pc = "done" =>
        /\ ex_item # NoneItem =>
              /\ IsText(ex_item.title) /\ Len(ex_item.title) > 0
              /\ IsText(ex_item.price) /\ Len(ex_item.price) > 0
        /\ (TitleMissing(ex_div) \/ PriceMissing(ex_div)) => ex_item = NoneItem

\* A container with a padded title and a blank price text gave an item
\* priced by its aria-label.
C6_Witness ==
    /\ ex_pc = "done"
    /\ ex_item # NoneItem
    /\ Len(ex_div.title) > Len(ex_item.title)
    /\ ex_div.price = <<" ">>

\* ----------------------------------------------- properties: the collector

\* The kinds of title elements whose container yields an item.
ValidKinds == {"V", "D", "T", "G"}

\* The element that is the container of the i-th title element.
ElementOf(i) == IF page[i] = "G" THEN 0 ELSE i

\* The de-dup key of the candidate of the i-th title element: its
\* data-hveid, or the hash of the head of its text.
KeyOf(i) ==
    CASE page[i] = "D" -> "hveid dup"
      [] page[i] = "G" -> "hveid grid"
      [] page[i] = "T" -> "hash t"
      [] OTHER -> ToString(i)

\* The key of the candidate whose container is the element e.
KeyOfElement(e) ==
    IF e = 0 THEN "hveid grid" ELSE KeyOf(e)

IsPrefix(a, b) == Len(a) <= Len(b) /\ SubSeq(b, 1, Len(a)) = a

FirstN(q, n) == SubSeq(q, 1, IF Len(q) < n THEN Len(q) ELSE n)

\* The members of the set S of indexes, in ascending order.
Ascending(S, n) == SelectSeq([i \in 1..n |-> i], LAMBDA i : i \in S)

ElementsOf(q) == [k \in 1..Len(q) |-> ElementOf(q[k])]

\* Among the first n title elements, those with a valid candidate whose key
\* no earlier valid candidate has, in document order.
DistinctValid(n) ==
    LET valid == {i \in 1..n : page[i] \in ValidKinds}
    IN  Ascending({i \in valid :
                      \A j \in valid : j < i => KeyOf(j) # KeyOf(i)}, n)

\* Among the first n title elements, those with a container no earlier
\* title element has, in document order.
DistinctContainers(n) ==
    LET held == {i \in 1..n : page[i] # "N"}
    IN  Ascending({i \in held :
                      \A j \in held : j < i => ElementOf(j) # ElementOf(i)}, n)

\* What the fallback pass is to return for the first n title elements.
FallbackExpected(n) ==
    FirstN(SelectSeq(FirstN(DistinctContainers(n), MaxFallbackItems),
                     LAMBDA i : page[i] \in ValidKinds),
           TargetCount)

ScrollResult == pc = "evaluate" /\ pass = "scroll"
FallbackRan == pc = "evaluate" /\ pass = "fallback"

\* C7: neither the list the scroll pass builds nor the list the collector
\* returns, from either pass, is ever longer than five items.
C7_AtMostTargetCount ==
    /\ Len(item_data) <= TargetCount
    /\ Len(items) <= TargetCount
    /\ Len(item_eids) <= TargetCount

\* The fallback pass returned five items of a page with eight or more.
C7_Witness ==
    /\ FallbackRan
    /\ Len(items) = TargetCount
    /\ Len(DistinctValid(attached)) >= 8

\* C8: the items stand in the order in which their candidates were first
\* extracted: what a step collects is appended in enumeration order to what
\* earlier steps collected, nothing is moved, and both passes return their
\* list as built; a step that collects where five or more distinct valid
\* candidates are present ends the pass with exactly the first five.
C8_FirstCollectedOrder ==
    /\ [](/\ pc \in {"scroll_loop", "after_scroll"} \/ ScrollResult
             => IsPrefix(item_eids, ElementsOf(DistinctValid(attached)))
          /\ ScrollResult => items = item_data
          /\ FallbackRan
             => IsPrefix(item_eids,
                         ElementsOf(SelectSeq(DistinctContainers(attached),
                                        LAMBDA i : page[i] \in ValidKinds))))
    /\ [][/\ (pc = "scroll_loop" /\ item_data' # <<>>)
                => IsPrefix(item_data, item_data')
          /\ (pc = "scroll_loop" /\ item_data' \notin {<<>>, item_data}
              /\ Len(DistinctValid(attached)) >= TargetCount)
                => /\ item_eids' = ElementsOf(FirstN(DistinctValid(attached),
                                                     TargetCount))
                   /\ pc' = "after_scroll"
         ]_vars

\* The scroll pass returned the first five products of a page with eight.
C8_Witness ==
    /\ ScrollResult
    /\ Len(DistinctValid(attached)) >= 8
    /\ item_eids = <<1, 2, 3, 4, 5>>
    /\ \A k \in 1..TargetCount :
          items[k].container_id = <<ToString(k)>>

\* C9 as stated: no two items of a result, of either pass, come from
\* candidates with the same de-dup key.
C9_NoSharedKey ==
    pc = "evaluate" =>
        \A i, j \in 1..Len(item_eids) :
            i # j => KeyOfElement(item_eids[i]) # KeyOfElement(item_eids[j])

\* C9, amended: no two items the scroll pass has collected carry the same
\* de-dup key, each item carrying the key of its candidate, so that a
\* candidate seen again at a later step is not collected twice; no two
\* items of the fallback pass come from the same container element, though
\* they may share a key.
C9_KeysInScrollElementsInFallback ==
    /\ (pc \in {"scroll_loop", "after_scroll"} \/ ScrollResult) =>
          /\ Len(item_eids) = Len(item_data)
          /\ \A i \in 1..Len(item_data) :
                item_data[i].container_id[1]
                    = IF item_eids[i] = 0 THEN "grid"
                      ELSE IF page[item_eids[i]] = "D" THEN "dup"
                      ELSE IF page[item_eids[i]] = "T" THEN "hash"
                      ELSE ToString(item_eids[i])
          /\ \A i, j \in 1..Len(item_eids) :
                i # j => KeyOfElement(item_eids[i])
                             # KeyOfElement(item_eids[j])
    /\ FallbackRan =>
          \A i, j \in 1..Len(item_eids) :
              i # j => item_eids[i] # item_eids[j]

\* The fallback pass returned two items with the same key.
C9_Witness ==
    /\ FallbackRan
    /\ \E i, j \in 1..Len(item_eids) :
          /\ i # j
          /\ KeyOfElement(item_eids[i]) = KeyOfElement(item_eids[j])

\* C10: the fallback pass runs exactly when the scroll pass returned no
\* item, and does not scroll; it returns nothing when find_elements fails,
\* and otherwise the valid items, five at most and in order, among the
\* first fifteen distinct containers of the title elements.
C10_Fallback ==
    /\ [](FallbackRan =>
            /\ item_data = <<>>
            /\ Len(items) = Len(item_eids)
            /\ \/ items = <<>>
               \/ item_eids = ElementsOf(FallbackExpected(attached)))
    /\ [][/\ pc = "after_scroll" =>
                /\ pc' = "evaluate"
                /\ (pass' = "fallback") <=> (item_data = <<>>)
                /\ <<current_position, scroll_count>>'
                       = <<current_position, scroll_count>>
          /\ pass' = "fallback" => pc \in {"after_scroll", "evaluate"}
         ]_vars

\* Fifteen rejected containers stand before a product: the fallback pass
\* has seen all of the page and returned nothing.
C10_Witness ==
    /\ FallbackRan
    /\ attached = Len(page)
    /\ Len(DistinctContainers(attached)) > MaxFallbackItems
    /\ \E i \in 1..Len(page) : i > MaxFallbackItems /\ page[i] \in ValidKinds
    /\ items = <<>>

\* ------------------------------------------------- properties: the sessions

\* Where a call stands while an attempt holds a session.
AttemptPcs ==
    PreparePcs \cup {"collect", "scroll_loop", "after_scroll", "evaluate"}

\* C11: with keep_browser_open false, every acquisition returns a session
\* that was not running before, the step that ends an attempt (items,
\* nothing, a retried failure, a raised error) calls quit() on it, and so
\* the only session running is that of the attempt under way: none between
\* attempts and none once a call has ended, over all calls on the instance.
C11_FreshSessionTornDown ==
    /\ [](~ keep_browser_open =>
            sessions = IF pc \in AttemptPcs THEN {cur} ELSE {})
    /\ [][~ keep_browser_open =>
            /\ (pc = "acquire" /\ pc' = "prepare") =>
                  /\ cur' \notin sessions \cup {driver}
                  /\ sessions' = sessions \cup {cur'}
            /\ (pc \in AttemptPcs /\ pc' \notin AttemptPcs) =>
                  /\ quit_call' \in {"ok", "raised"}
                  /\ cur \notin sessions'
         ]_vars

\* The second call on an instance that does not keep its browser has
\* returned items at its second attempt, and no session is running.
C11_Witness ==
    /\ ~ keep_browser_open
    /\ pc = "done"
    /\ runs = 2
    /\ attempt = 1
    /\ outcome.kind = "returned"
    /\ sessions = {}

\* The instance holds a session whose proxy and headless values are those
\* asked for.
SameFingerprint ==
    /\ driver # NoDriver
    /\ driver_config.proxy = proxy
    /\ driver_config.headless = headless

C13_DeadSessionReplaced ==
    [][(keep_browser_open /\ pc = "acquire" /\ SameFingerprint
        /\ driver \notin sessions') =>
          /\ driver' # driver
          /\ pc' = "prepare" =>
                /\ cur' \notin sessions
                /\ cur' \in sessions'
                /\ driver' = cur'
                /\ driver_config' = [proxy |-> proxy, headless |-> headless]
                /\ outcome' = outcome
          /\ pc' # "prepare" =>
                /\ driver' = NoDriver
                /\ sessions' = sessions \ {driver}
                /\ \/ pc' = "for" /\ outcome' = outcome
                   \/ pc' = "done" /\ outcome' = InitializationError
      ]_vars

\* The session the instance kept was gone at the probe: a second session
\* has replaced it and is the only one running.
C13_Witness ==
    /\ keep_browser_open
    /\ pc = "prepare"
    /\ cur = 2
    /\ driver = 2
    /\ sessions = {2}

C15_TeardownErrorsSwallowed ==
    [][quit_call' = "raised" =>
         /\ CloseBrowser =>
               /\ driver' = NoDriver
               /\ driver_config' = EmptyConfig
               /\ UNCHANGED <<pc, outcome>>
         /\ Del => outcome' = outcome
         /\ (pc = "evaluate" /\ items # <<>>) =>
               (pc' = "done" /\ outcome' = Returned(items))
         /\ (pc = "evaluate" /\ items = <<>>) =>
               (pc' = "for" /\ outcome' = outcome)
         /\ pc \in PreparePcs =>
               \/ pc' = "for" /\ outcome' = outcome
               \/ /\ pc' = "done"
                  /\ outcome' \in {GetShoppingDataError,
                                   Raised("ConsentFormAcceptError")}
         /\ CloseBrowser \/ Del \/ pc \in AttemptPcs
      ]_vars

\* close_browser was called after a call, and its quit() raised.
C15_Witness ==
    /\ pc = "done"
    /\ quit_call = "raised"
    /\ driver = NoDriver
    /\ driver_config = EmptyConfig

\* ------------------------------------------ properties: the consent handler

ConsentError == Raised("ConsentFormAcceptError")

\* C16 as stated: once driver.get has returned, _click_consent_button goes
\* on to the wait and returns, whatever becomes of the consent button.
C16_OnlyNavigationFails ==
    [][(pc \in {"consent", "click", "no_control", "clicked"}) =>
          (/\ pc' \in {"click", "no_control", "clicked", "collect"}
           /\ outcome' = outcome)]_vars

\* C16, amended: ConsentFormAcceptError is raised when driver.get raises,
\* when looking the button up raises anything but NoSuchElementException,
\* and when scrolling to the button found or clicking it raises; a button
\* that is not there is no error, and with the button clicked or not there
\* the handler waits for the page and returns.
C16_AbsentControlIsNoError ==
    [][/\ (pc \in {"no_control", "clicked"}) =>
              (pc' = "collect" /\ outcome' = outcome)
       /\ (pc = "consent") =>
              ((pc' \in {"no_control", "click"} /\ outcome' = outcome)
                  \/ (pc' = "done" /\ outcome' = ConsentError))
       /\ (pc = "click") =>
              ((pc' = "clicked" /\ outcome' = outcome)
                  \/ (pc' = "done" /\ outcome' = ConsentError))
       /\ (outcome' = ConsentError /\ outcome # ConsentError) =>
              (pc \in {"prepare", "consent", "click"})]_vars

\* At the second attempt of a call the page was reached and no consent
\* button was found.
C16_Witness ==
    /\ pc = "no_control"
    /\ attempt = 1
    /\ outcome = NoOutcome

\* ----------------------------------------- properties: the optional fields

\* A text that is digits with at most one decimal point in it.
IsRating(s) ==
    /\ \A i \in 1..Len(s) : s[i] \in Digits \cup {"."}
    /\ \E i \in 1..Len(s) : s[i] \in Digits
    /\ Cardinality({i \in 1..Len(s) : s[i] = "."}) <= 1

\* C17: the review of an item is the trimmed text of the review element
\* exactly when that text is not empty and is digits with at most one decimal
\* point; for every other text, and without the element, it is None.
C17_ReviewFilter ==
    (ex_pc = "done" /\ ex_item # NoneItem) =>
        ex_item.review =
            IF IsText(ex_div.review) /\ IsRating(Strip(ex_div.review))
            THEN Strip(ex_div.review) ELSE None

\* The tokens of a URL, in lower case.
TokensOf(url) == {LowerChar(url[i]) : i \in 1..Len(url)}

HasUrl(x) == IsText(x) /\ x # <<>>

\* The four classes of images, best first: inline data, thumbnail proxy with
\* the shopping query, thumbnail proxy in src or data-src, any other http
\* source that is no favicon, icon or logo.
InClass(k, img) ==
    CASE k = 1 -> HasUrl(img.src) /\ img.src[1] = "data:image/"
      [] k = 2 -> /\ HasUrl(img.src)
                  /\ {"encrypted-tbn", "shopping?q=tbn:"} \subseteq TokensOf(img.src)
      [] k = 3 -> \/ HasUrl(img.src) /\ "encrypted-tbn" \in TokensOf(img.src)
                  \/ HasUrl(img.data_src)
                        /\ "encrypted-tbn" \in TokensOf(img.data_src)
      [] OTHER -> /\ HasUrl(img.src)
                  /\ img.src[1] = "http"
                  /\ TokensOf(img.src) \cap {"favicon", "icon", "logo"} = {}

\* The URL an image of class k is taken by.
UrlInClass(k, img) ==
    IF k = 3 /\ ~ (HasUrl(img.src) /\ "encrypted-tbn" \in TokensOf(img.src))
    THEN img.data_src ELSE img.src

\* The candidate images of a container: inside it, in its siblings, in its
\* parent.
Candidates(div) ==
    Found(div.imgs_in) \o Found(div.imgs_sib) \o Found(div.imgs_parent)

\* No attribute of a candidate fails to be read.
ReadsSucceed(div) ==
    \A i \in 1..Len(Candidates(div)) :
        Candidates(div)[i].src # Stale /\ Candidates(div)[i].data_src # Stale

\* The first image of the best class that has a match, None without a match.
BestImage(imgs) ==
    LET ks == {k \in 1..4 : \E i \in 1..Len(imgs) : InClass(k, imgs[i])}
    IN  IF ks = {} THEN None
        ELSE LET k == CHOOSE j \in ks : \A h \in ks : j <= h
                 hits == {i \in 1..Len(imgs) : InClass(k, imgs[i])}
             IN  UrlInClass(k, imgs[CHOOSE i \in hits : \A h \in hits : i <= h])

\* C18: when the attributes of the candidate images can be read, image_url
\* is the URL of the first candidate of the best class that has a match
\* among the candidates, in the order inside the container, siblings,
\* parent; it is None when no candidate is in any class.
C18_ImagePriority ==
    (ex_pc = "done" /\ ex_item # NoneItem /\ ReadsSucceed(ex_div)) =>
        ex_item.image_url = BestImage(Candidates(ex_div))

\* A plain http image and a thumbnail inside the container, an inline image
\* in a sibling: the inline image is taken.
C18_Witness ==
    /\ ex_pc = "done"
    /\ ex_div.imgs_in = <<HttpImg, TbnImg>>
    /\ ex_div.imgs_sib = <<InlineImg>>
    /\ ex_item # NoneItem
    /\ ex_item.image_url = InlineImg.src

\* ------------------------------------------------- properties: the price

\* The first amount behind a currency symbol in the aria-label of the price
\* element.
LabelAmount(div) ==
    IF div.aria \in {None, Stale} THEN NoMatch ELSE ReSearch(div.aria)

\* The price by the text of the price element, then by the aria-label when
\* it is usable: None when there is neither.
PriceBy(div, label_usable) ==
    IF ~ IsText(div.price) THEN None
    ELSE IF Strip(div.price) # <<>> THEN Strip(div.price)
    ELSE IF label_usable /\ LabelAmount(div) # NoMatch THEN LabelAmount(div)
    ELSE None

\* The item of the container has the price p; the container is rejected
\* when p is None.
PriceIs(p) ==
    IF p = None THEN ex_item = NoneItem
    ELSE ex_item # NoneItem /\ ex_item.price = p

\* C19 as stated: the price is the trimmed text of the price element when it
\* is not empty, otherwise the first amount behind a currency symbol in the
\* aria-label whenever there is one; the container is rejected only when
\* neither gives a value.
C19_PriceFromAnyLabel ==
    (ex_pc = "done" /\ ~ TitleMissing(ex_div)) =>
        PriceIs(PriceBy(ex_div, TRUE))

\* C19, amended: the aria-label stands in for an empty price text only when
\* it contains the word "price" (in any case) and an amount behind a
\* currency symbol; the container is rejected when the text is empty and
\* the label has no such word or no such amount.
C19_PriceFromPriceLabel ==
    (ex_pc = "done" /\ ~ TitleMissing(ex_div)) =>
        PriceIs(PriceBy(ex_div, Contains(Lower(ex_div.aria), PriceWord)))

\* An empty price text and the label "Price: INR 21.1": the amount of the
\* label is the price.
C19_Witness ==
    /\ ex_pc = "done"
    /\ ex_div.price = <<>>
    /\ ex_div.aria = AriaPrice
    /\ ex_item # NoneItem
    /\ ex_item.price = <<"INR", "2", "1", ".", "1">>

\* ------------------------------------- properties: optional fields missing

\* The lookups of images found nothing or raised, or the first attribute
\* read raised.
NoImageRead(div) ==
    \/ Candidates(div) = <<>>
    \/ Candidates(div)[1].src = Stale

\* C20: a container whose title and price are extracted always gives an
\* item; a delivery, review, link or image that is not there or cannot be
\* read leaves the default "N/A", None, "N/A", None in its field, and
\* saved_image_path is None.
C20_OptionalFieldsDefault ==
    (ex_pc = "done" /\ ~ TitleMissing(ex_div) /\ ~ PriceMissing(ex_div)) =>
        /\ ex_item # NoneItem
        /\ ex_item.saved_image_path = None
        /\ ~ IsText(ex_div.delivery) => ex_item.delivery_price = NA
        /\ ~ IsText(ex_div.review) => ex_item.review = None
        /\ ~ IsText(ex_div.href) => ex_item.url = NA
        /\ NoImageRead(ex_div) => ex_item.image_url = None

\* An item of a container whose delivery element cannot be read, whose
\* review and link are not there and whose only image went stale.
C20_Witness ==
    /\ ex_pc = "done"
    /\ ex_div.delivery = Stale
    /\ ex_div.review = Absent
    /\ ex_div.href = Absent
    /\ ex_div.imgs_in = <<StaleImg>>
    /\ ex_item # NoneItem
    /\ ex_item.delivery_price = NA
    /\ ex_item.url = NA

\* --------------------------------------- properties: failures while reading

\* Reading the title or the price of the container fails: the element is
\* not found or has gone stale, or the aria-label that is needed cannot be
\* read.
ReadFails(div) ==
    \/ div.title \in {Absent, Stale}
    \/ div.price \in {Absent, Stale}
    \/ Strip(div.price) = <<>> /\ div.aria = Stale

\* C21: _get_data_from_item_div never raises, and a failure while reading
\* the title or the price of a container makes it return None.
C21_ExtractorNeverRaises ==
    ex_pc = "done" =>
        /\ ex_item # ExtractorRaised
        /\ ReadFails(ex_div) => ex_item = NoneItem

\* The price element of a container with a title went stale: None.
C21_Witness ==
    /\ ex_pc = "done"
    /\ ex_div.title = <<"a">>
    /\ ex_div.price = Stale
    /\ ex_item = NoneItem

\* ------------------------------------------ properties: the scroll pass

\* C29: the scroll pass ends: a step of the loop leaves it or scrolls; a
\* scroll is made only in the loop, after fewer than MaxScrolls scrolls, and
\* the loop goes on after a scroll only with one more scroll counted, still
\* fewer than MaxScrolls, and the position above the height of the page as
\* measured after the scroll.
C29_ScrollPassEnds ==
    [][/\ scroll_call' =>
             (pc = "scroll_loop" /\ scroll_count < MaxScrolls)
       /\ (pc = "scroll_loop" /\ pc' = "scroll_loop") =>
             /\ scroll_call'
             /\ scroll_count' = scroll_count + 1
             /\ scroll_count' < MaxScrolls
             /\ current_position' < PageHeight(attached')
       /\ (pc = "scroll_loop") => (pc' = "after_scroll" \/ pc' = "scroll_loop")
       /\ (pc' = "scroll_loop") => LoopGuard'
      ]_vars

\* The pass is at its last scroll on a page that gave no item.
C29_Witness ==
    /\ pc = "scroll_loop"
    /\ scroll_count = MaxScrolls - 1
    /\ scroll_call
    /\ item_data = <<>>
    /\ attached = Len(page)

\* C30: when the products collected at a scroll position reach TargetCount,
\* the step collects exactly TargetCount, does not scroll, and leaves the
\* loop; no step of the pass scrolls or extracts with TargetCount products
\* collected.
C30_StopsAtTargetCount ==
    [][/\ (pc = "scroll_loop" /\ Len(item_data') >= TargetCount) =>
             /\ Len(item_data') = TargetCount
             /\ ~ scroll_call'
             /\ pc' = "after_scroll"
       /\ (pc \in {"scroll_loop", "after_scroll"}
              /\ Len(item_data) >= TargetCount) =>
             /\ ~ scroll_call'
             /\ item_data' = item_data
             /\ pc' = "evaluate"
      ]_vars

\* The pass stopped without a scroll on a page with more products attached
\* than it took.
C30_Witness ==
    /\ pc = "after_scroll"
    /\ ~ scroll_call
    /\ Len(item_data) = TargetCount
    /\ Cardinality({i \in 1..attached : page[i] = "V"}) > TargetCount

\* ------------------------------------ properties: the readiness detector

\* C22: polling stops when an element for a selector is found or when one
\* timeout has passed since polling began: over all selectors no more than
\* one timeout is spent polling, and polling does not go on with an element
\* for any selector there.
C22_PollingWithinOneTimeout ==
    /\ rd_polled <= PollsPerTimeout
    /\ rd_pc = "poll" =>
          \A sel \in Selectors : rd_page[sel] >= rd_polled

\* C23: _wait_for_javascript_rendering never raises: after a timeout of
\* every selector, after an element query that failed and after an error in
\* the stability check it returns.
C23_DetectorNeverRaises ==
    [][/\ rd_pc' \in {"poll", "sample", "returned"}
       /\ rd_result' \in {"query_error", "stability_error"} =>
             rd_pc' = "returned"
       /\ (rd_pc = "poll" /\ rd_waited = PollsPerTimeout /\ rd_sel = 4) =>
             rd_pc' \in {"sample", "returned"}
      ]_vars

\* No element was ever found, the stability check failed, and the wait has
\* returned.
C23_Witness ==
    /\ rd_pc = "returned"
    /\ rd_result = "stability_error"
    /\ rd_sel = 4
    /\ rd_polled = 4 * PollsPerTimeout

\* C24: the stability check takes at most two samples; it finds the
\* content stable exactly when it has taken two that are equal and not
\* zero, and otherwise it returns after the second.
C24_StabilityCheck ==
    /\ Len(rd_samples) <= 2
    /\ rd_result = "stable" <=>
          /\ rd_pc = "returned"
          /\ Len(rd_samples) = 2
          /\ rd_samples[1] = rd_samples[2]
          /\ rd_samples[1] > 0
    /\ rd_result = "completed" <=>
          /\ rd_pc = "returned"
          /\ Len(rd_samples) = 2
          /\ ~ (rd_samples[1] = rd_samples[2] /\ rd_samples[1] > 0)
    /\ (rd_pc = "sample" /\ rd_result = "none") => Len(rd_samples) < 2

\* Two samples of zero: not stable, and the check has returned.
C24_Witness ==
    /\ rd_pc = "returned"
    /\ rd_samples = <<0, 0>>
    /\ rd_result = "completed"

\* ---------------------------------------------- properties: the delays

\* The last call was that of a first attempt.
FirstAttempt == dl_call.attempt = 0

\* The range of the random delay at an attempt, in fast mode or not.
JitterOf(att, fast) ==
    [lo |-> Reduced(DelayArgs(att).min_delay, fast),
     hi |-> Reduced(DelayArgs(att).max_delay, fast)]

Larger(a, b) == a.lo > b.lo /\ a.hi > b.hi /\ a.hi - a.lo > b.hi - b.lo

\* C25 as stated: at a retry the range of the random delay and the minimum
\* spacing are both larger than at the first attempt, and both are smaller
\* in fast mode than without it.
C25_JitterAndSpacingLargerOnRetry ==
    dl_calls > 0 =>
        /\ ~ FirstAttempt =>
              /\ Larger(dl_call, JitterOf(0, dl_call.fast))
              /\ dl_call.spacing > MinTimeBetweenRequests(dl_call.fast)
        /\ dl_call.fast =>
              /\ Larger(JitterOf(dl_call.attempt, FALSE), dl_call)
              /\ dl_call.spacing < MinTimeBetweenRequests(FALSE)

\* C25, amended: at a retry the range of the random delay is larger than
\* at the first attempt; the minimum spacing is the same at every attempt,
\* 1 s, or 0.5 s in fast mode; the range and the spacing are both smaller in
\* fast mode than without it.
C25_JitterLargerOnRetry ==
    dl_calls > 0 =>
        /\ ~ FirstAttempt => Larger(dl_call, JitterOf(0, dl_call.fast))
        /\ dl_call.spacing = IF dl_call.fast THEN 5 ELSE 10
        /\ dl_call.fast => Larger(JitterOf(dl_call.attempt, FALSE), dl_call)
        /\ dl_call.delay \in dl_call.lo..dl_call.hi

\* A retry in fast mode: a delay of 1.5 s to 3 s and a spacing of 0.5 s.
C25_Witness ==
    /\ dl_calls > 0
    /\ dl_call.attempt = 1
    /\ dl_call.fast
    /\ <<dl_call.lo, dl_call.hi, dl_call.spacing>> = <<15, 30, 5>>

\* C26: a call of _add_random_delay, by whatever instance and at whatever
\* attempt, does not return before the minimum spacing has passed since the
\* call before it returned.
C26_SpacingAcrossInstances ==
    [][(dl_calls' > 1) => dl_now' - dl_done' >= dl_call'.spacing]_vars

\* --------------------------------------------------- properties: the API

\* C27: the scrape of a request runs on a scraper whose fast mode is the
\* request's fast and whose keep_browser_open is its keep_browser.
C27_RequestParametersApplied ==
    api_pc = "running" =>
        /\ api_scraper.fast_mode = api_req.fast
        /\ api_scraper.keep_browser_open = api_req.keep_browser

\* C28: a request whose scrape fails is answered with HTTP 500 and the
\* message of the failure; no error leaves the handler otherwise.
C28_FailuresAnswered500 ==
    api_response.kind \notin {"none", "json"} =>
        /\ api_response.kind = "http_error"
        /\ api_response.status = 500

\* ------------------------------------------- properties: C31 to C40

\* The title element at index i of the page under collection.
TitleAt(i) == TitleElem(page[i], i)

\* The title elements whose nearest priced ancestor is 1 to 5 levels up.
InReach(i) == TitleAt(i).level \in 1..MaxLevels

\* C31: in the scroll pass and in the fallback pass, every item comes from
\* the nearest priced ancestor of a title element, 1 to 5 levels above it;
\* a title element without a priced ancestor within 5 levels yields no
\* candidate and no item.
C31_ContainerWithinFiveLevels ==
    /\ \A i \in 1..Len(page) :
          /\ InReach(i) => FindContainer(TitleAt(i)) = TitleAt(i).div
          /\ ~InReach(i) => FindContainer(TitleAt(i)) = NoContainer
    /\ pc = "evaluate" =>
          \A k \in 1..Len(item_eids) :
             \E i \in 1..attached :
                InReach(i) /\ TitleAt(i).div.eid = item_eids[k]

\* A pass has returned items from a page on which a title element has its
\* priced ancestor six levels up.
C31_Witness ==
    /\ pc = "evaluate"
    /\ item_eids # <<>>
    /\ \E i \in 1..attached : TitleAt(i).level = MaxLevels + 1

\* C33 as stated: the session handed to an attempt is cleared exactly when
\* it is a reused one, and not when it was created for the attempt.
C33_ClearedIffReused ==
    [][(pc = "acquire" /\ pc' = "prepare") =>
          (clear_call' \in {"ok", "raised"} <=> cur' \in sessions)]_vars

\* C33: the session handed to an attempt is cleared exactly when the
\* browser is kept open between calls, be the session a reused one or one
\* created for the attempt; it is cleared before the page is requested, and
\* an error while clearing leaves the attempt going.
C33_ClearedIffKeptOpen ==
    [][/\ (pc = "acquire" /\ pc' = "prepare") =>
             (clear_call' \in {"ok", "raised"} <=> keep_browser_open)
       /\ (clear_call' # "none") =>
             (pc = "acquire" /\ pc' = "prepare" /\ outcome' = outcome
              /\ attempt' = attempt /\ cur' \in sessions')
       /\ (pc' = "consent") => (pc = "prepare")]_vars

\* On the first attempt of the first call, with the browser kept open, the
\* session just created is cleared, with an error.
C33_Witness ==
    /\ keep_browser_open
    /\ pc = "prepare"
    /\ runs = 1
    /\ attempt = 0
    /\ clear_call = "raised"

\* The states of an attempt, in the order of lines 822-857; 0 outside an
\* attempt.
Stage(p) ==
    CASE p = "delay" -> 1
      [] p = "acquire" -> 2
      [] p \in PreparePcs -> 3
      [] p \in {"collect", "scroll_loop", "after_scroll"} -> 4
      [] p = "evaluate" -> 5
      [] OTHER -> 0

\* C32: an attempt goes through Delay, Acquire, Prepare, Collect and
\* Evaluate in this order, without skipping one and without going back, and
\* ends with Release: a session is acquired in Acquire only, after the
\* delay; the page is requested and loaded in Prepare only; Collect starts
\* only when the consent handler has returned without an error; a session
\* is released only when the attempt ends.
C32_FixedOrder ==
    [][/\ Stage(pc') \in {0, Stage(pc), Stage(pc) + 1}
       /\ (~ (sessions' \subseteq sessions) \/ (cur' # cur /\ cur' # NoDriver))
             => (pc = "acquire" /\ pc' = "prepare")
       /\ (pc' = "acquire") => (pc = "delay")
       /\ (pc' = "consent") => (pc = "prepare")
       /\ (page' # page /\ page' # <<>>) => (Stage(pc) = 3)
       /\ (pc' = "collect") =>
             (pc \in {"no_control", "clicked"} /\ outcome' = outcome)
       /\ (Stage(pc) # 0 /\ quit_call' # "none") =>
             (Stage(pc) >= 3 /\ Stage(pc') = 0)]_vars

\* A retry has gone through all the states up to Evaluate.
C32_Witness ==
    /\ pc = "evaluate"
    /\ attempt >= 1
    /\ cur \in sessions

\* C34: with keep_browser_open true, at every point of any sequence of
\* calls of get_shopping_data_for_query and close_browser, at most one
\* session created by the instance is running; when a session is created
\* because the proxy or headless value asked for differs from that of the
\* session held, the session held until then is no longer running.
C34_AtMostOneLiveSession ==
    keep_browser_open => Cardinality(sessions) <= 1

\* C35: a call that returns returns between one and five items; the last
\* attempt of a call, when it collected nothing, returns nothing: the loop
\* is left and the call raises DriverGetShoppingDataError.
C35_NeverReturnsEmpty ==
    /\ [](outcome.kind = "returned" =>
            (Len(outcome.items) \in 1..TargetCount /\ pc \in {"done", "deleted"}))
    /\ [][/\ (pc = "evaluate" /\ items = <<>> /\ ~ AttemptRemains) =>
                (pc' = "for" /\ ~ (attempt' < max_retries)
                 /\ outcome'.kind = "none")
          /\ (pc = "for" /\ ~ (attempt < max_retries)) =>
                (pc' = "done" /\ outcome' = GetShoppingDataError)
          /\ (outcome'.kind = "returned" /\ outcome.kind # "returned") =>
                (pc = "evaluate" /\ outcome'.items = items)]_vars

\* Each of three attempts acquired a session and collected nothing, and
\* the call has raised.
C35_Witness ==
    /\ pc = "done"
    /\ outcome = GetShoppingDataError
    /\ max_retries = DefaultMaxRetries
    /\ attempt = max_retries
    /\ acquire_calls = max_retries
    /\ acquired_any
    /\ items = <<>>

\* C36: a call with max_retries <= 0 makes no attempt: it goes through no
\* delay, acquires no session and loads no page, and it raises
\* DriverGetShoppingDataError.
C36_NoAttemptWithoutRetries ==
    /\ []((runs >= 1 /\ max_retries <= 0) =>
            /\ pc \in {"for", "done", "deleted"}
            /\ acquire_calls = 0
            /\ ~ acquired_any
            /\ attempt = 0
            /\ page = <<>>
            /\ pc = "for" \/ outcome = GetShoppingDataError)
    /\ [][(pc = "for" /\ max_retries <= 0) =>
             /\ pc' = "done"
             /\ outcome' = GetShoppingDataError
             /\ sessions' = sessions
             /\ driver' = driver
             /\ quit_call' = "none"]_vars

\* A call with max_retries = -1 on an instance that holds a session from an
\* earlier call has raised.
C36_Witness ==
    /\ pc = "done"
    /\ max_retries < 0
    /\ runs = 2
    /\ driver \in sessions
    /\ outcome = GetShoppingDataError

\* C37: when an error leaves the scroll loop (a failing scroll or height
\* script), the scroll pass yields the empty list, whatever it had
\* collected, and the error goes no further; the fallback pass runs next,
\* and what the collector returns is what the fallback pass found.
C37_ScrollErrorFallsBack ==
    [][/\ scroll_error'.raised =>
             /\ pc = "scroll_loop" /\ pc' = "after_scroll"
             /\ item_data' = <<>> /\ item_eids' = <<>>
             /\ outcome' = outcome /\ items' = items
       /\ (pc = "after_scroll" /\ scroll_error.raised) =>
             /\ pc' = "evaluate" /\ pass' = "fallback"
             /\ outcome' = outcome
             /\ \/ items' = <<>>
                \/ \E grown \in Grown(page, attached) :
                      item_eids' = ElementsOf(FallbackExpected(grown))]_vars

\* An error has left the scroll loop when two items had been collected.
C37_Witness ==
    /\ pc = "after_scroll"
    /\ scroll_error.raised
    /\ Len(scroll_error.lost) = 2
    /\ item_data = <<>>

\* C38: in the scroll pass every scroll that succeeds is followed by an
\* enumeration of the title elements before the pass ends: the pass does
\* not end on a scroll, and when it returns fewer than TargetCount items it
\* has taken every valid candidate attached to the page by then, those the
\* last scroll brought included.
C38_EveryScrollExamined ==
    /\ [][(scroll_call' /\ ~ scroll_error'.raised) =>
             pc' = "scroll_loop"]_vars
    /\ []((ScrollResult /\ Len(items) < TargetCount) =>
            item_eids = ElementsOf(DistinctValid(attached)))

\* C39 as stated: no two handlers are inside a call on the global scraper
\* at a time, and no more than one global scraper is ever created.
C39_NoOverlapOneScraperEver ==
    /\ api_active <= 1
    /\ api_made <= 1

\* C39: whatever requests are waiting, no two handlers are inside a call on
\* the global scraper at a time, and /cleanup closes its browser only while
\* no handler is inside such a call; a global scraper is made only while
\* none is held, before the first request with keep_browser or after a
\* /cleanup, so there is never more than one at a time.
C39_NoOverlap ==
    /\ [](api_active <= 1)
    /\ []((api_pc = "running" /\ api_req.keep_browser) =>
            (api_active = 1 /\ api_scraper = api_global))
    /\ [][/\ (api_global # NoScraper /\ api_global' = NoScraper) =>
                (api_active = 0 /\ api_active' = 0)
          /\ (api_made' # api_made) =>
                (api_global = NoScraper /\ api_global' # NoScraper
                 /\ api_made' = api_made + 1 /\ api_active = 0)
          /\ (api_pc = "running" /\ api_pc' = "running") =>
                (api_req' = api_req /\ api_scraper' = api_scraper
                 /\ api_global' = api_global)]_vars

\* A handler is inside a call on the second global scraper, made after a
\* /cleanup, while another request is waiting.
C39_Witness ==
    /\ api_pc = "running"
    /\ api_req.keep_browser
    /\ api_active = 1
    /\ api_made = 2
    /\ api_waiting >= 1

\* C40: the markup of the page is written to the debug file, and the page
\* waited for once more before that, only when the scraper's logger logs at
\* DEBUG level; with a logger that logs at INFO or above, one without a
\* level of its own that inherits INFO included, neither happens.
C40_MarkupOnlyInDebugMode ==
    debug_call # "none" => EffectiveLevel(logger) <= LevelValue.DEBUG
====
